---- MODULE Spec2Model ----
(***************************************************************************)
(* Obsidian Watchtower: the in-memory Evidence / Claim / Artifact stores   *)
(* (src/watchtower/storage) and the record models they hold                *)
(* (src/watchtower/models).                                                *)
(*                                                                         *)
(* Representation.                                                         *)
(*  - A Python str is a tuple of one-letter strings (<<"w","t">>), so that *)
(*    f-string formatting and concatenation are computed, not assumed.     *)
(*  - Python None in an Optional[str] field is the tuple None, which no    *)
(*    str equals because its only element is not one letter long.         *)
(*  - A record identifier (a uuid4 string) is a positive integer; the      *)
(*    integer order stands for the string order used by sorted().  NoId    *)
(*    stands for None in an Optional[str] identifier.                      *)
(*  - confidence is held in tenths: 7 stands for 0.7.                      *)
(*  - A datetime is a count of clock ticks, TicksPerSecond ticks to the    *)
(*    second.                                                              *)
(*  - A Python dict is the sequence of its values in insertion order; the  *)
(*    key of a value is its id field (the stores always insert under       *)
(*    record.id).                                                          *)
(*  - hashlib.sha256 is taken to be injective: a digest is the tagged      *)
(*    input <<"sha256", input>>.                                           *)
(***************************************************************************)
EXTENDS Integers, Sequences, FiniteSets, TLC

(***************************************************************************)
(* Bounds of the model.                                                    *)
(***************************************************************************)
\* Records the three stores hold between them.
MaxRecords == 3
\* Ticks of the clock.
MaxTime == 1
\* Length of an evidence list given to store_claim.
MaxRefs == 1
\* Length of an evidence list of a claim constructed outside the stores.
MaxLen == 2
TicksPerSecond == 2
MaxReadRecords == 2
MaxRun == 2
\* Plugin instances of one name.
MaxInstances == 2
\* Alerts in one summarised list.
MaxAlerts == 3

(***************************************************************************)
(* Python values.                                                          *)
(***************************************************************************)
None == <<"<None>">>
NoId == 0
NoList == <<NoId>>
\* None where a record (Evidence, Claim, Artifact) is expected.
NoRecord == [id |-> NoId]
EmptyDict == {}
NoDict == {<<None, None>>}

\* bool(x) for an Optional[str]: None and "" are falsy.
Truthy(s) == s # None /\ s # <<>>

\* str(x) as an f-string field formats it: str(None) is the text None.
Str(s) == IF s = None THEN <<"N", "o", "n", "e">> ELSE s

\* f"{name}:{version}" if name else None
Label(name, version) ==
    IF Truthy(name) THEN Str(name) \o <<":">> \o Str(version) ELSE None

\* datetime.isoformat(): the fraction is left out when it is zero.
isoformat(t) ==
    IF t % TicksPerSecond = 0
    THEN <<t \div TicksPerSecond>>
    ELSE <<t \div TicksPerSecond, t % TicksPerSecond>>

\* hashlib.sha256(x).hexdigest(), injective on its input.
sha256(x) == <<"sha256", x>>

\* metadata or {}
OrEmptyDict(m) == IF m = NoDict \/ m = EmptyDict THEN EmptyDict ELSE m

\* counter_evidence_ids or []
OrEmptyList(l) == IF l = NoList \/ l = <<>> THEN <<>> ELSE l

\* sorted(ids): insertion sort, ascending, duplicates kept.
RECURSIVE InsertSorted(_, _)
InsertSorted(x, s) ==
    IF s = <<>> THEN <<x>>
    ELSE IF x <= Head(s) THEN <<x>> \o s
    ELSE <<Head(s)>> \o InsertSorted(x, Tail(s))

RECURSIVE sorted(_)
sorted(s) == IF s = <<>> THEN <<>> ELSE InsertSorted(Head(s), sorted(Tail(s)))

(***************************************************************************)
(* Python dict, insertion ordered, keyed by the id of the value.           *)
(***************************************************************************)
Keys(d) == {d[i].id : i \in 1..Len(d)}

\* d.get(k): the value under k, or None.
DictGet(d, k) ==
    IF k \in Keys(d) THEN d[CHOOSE i \in 1..Len(d) : d[i].id = k] ELSE NoRecord

\* d[k] = v: replaces the value of an existing key in place, appends a new key.
DictSet(d, k, v) ==
    IF k \in Keys(d)
    THEN [d EXCEPT ![CHOOSE i \in 1..Len(d) : d[i].id = k] = v]
    ELSE Append(d, v)

\* A generator that can return an identifier again.
uuid4Repeating(pool, d) == pool

\* str(uuid.uuid4()): an identifier that is not in use in the collection.
uuid4(pool, d) == pool \ Keys(d)

\* A generator whose next identifier a caller can name beforehand.
uuid4_predictable(pool, d, named) == pool \ Keys(d)

\* str(uuid.uuid4()) where callers name identifiers that the collection keeps
\* (parent_artifact_id): the identifier is random, so it is none of those
\* named before it was generated, the arguments of the present call included.
uuid4_unpredicted(pool, d, named) == uuid4(pool, d) \ named

(***************************************************************************)
(* Inputs the callers supply.                                              *)
(***************************************************************************)
\* The identifiers uuid4 can return.
UUIDs == 1..MaxRecords
\* The identifiers a caller can name: those, and one that is never generated.
RefIds == 1..(MaxRecords + 1)

Contents == {"a", "b"}
Sources == {"manual"}
Statements == {"s"}
Metadatas == {NoDict}
\* <<tool_name, tool_version, model_name, model_version>>
Provenances == {<<None, None, None, None>>}
Confidences == {-1, 0, 10, 11}
ArtifactTypes == {"report"}
ArtifactContents == {"a"}

SeqsUpTo(S, n) == UNION {[1..k -> S] : k \in 0..n}
SupportingInputs == SeqsUpTo(RefIds, MaxRefs)
CounterInputs == {NoList} \cup SeqsUpTo(RefIds, MaxRefs)
ParentInputs == {NoId} \cup RefIds

(***************************************************************************)
(* models/evidence.py                                                      *)
(***************************************************************************)
\* Evidence(...): every field is accepted as given; id defaults to None.
Evidence(content, source, metadata, prov, timestamp) ==
    [id |-> NoId, content |-> content, source |-> source, metadata |-> metadata,
     tool_name |-> prov[1], tool_version |-> prov[2],
     model_name |-> prov[3], model_version |-> prov[4],
     timestamp |-> timestamp]

Evidence_sha256(e) == sha256(e.content)

Evidence_fingerprint(e) ==
    sha256([sha256 |-> Evidence_sha256(e),
            timestamp |-> isoformat(e.timestamp),
            tool |-> Label(e.tool_name, e.tool_version),
            model |-> Label(e.model_name, e.model_version)])

(***************************************************************************)
(* models/claim.py                                                         *)
(***************************************************************************)
ConfidenceGe == 0
ConfidenceLe == 10

\* Field(ge=0.0, lt=1.0)
ConfidenceValidUpperOpen(confidence) ==
    confidence >= ConfidenceGe /\ confidence < ConfidenceLe

\* Field(ge=0.0, le=1.0)
ConfidenceValid(confidence) ==
    confidence >= ConfidenceGe /\ confidence <= ConfidenceLe

\* A check that counts supporting_evidence_ids only.
HasEvidenceRefSupportingOnly(supporting, counter) == Len(supporting) # 0

\* model_post_init: at least one evidence reference.
HasEvidenceRef(supporting, counter) == Len(supporting) + Len(counter) # 0

\* Claim(...): field validation first, then model_post_init.  The outcome is
\* the error raised ("" when none) and the claim constructed.
Claim(statement, confidence, supporting, counter, metadata, prov, timestamp) ==
    [error |-> IF ~ConfidenceValid(confidence) THEN "ValidationError"
               ELSE IF ~HasEvidenceRef(supporting, counter)
                    THEN "No claim without evidence_ref"
               ELSE "",
     value |-> [id |-> NoId, statement |-> statement, confidence |-> confidence,
                supporting_evidence_ids |-> supporting,
                counter_evidence_ids |-> counter,
                metadata |-> metadata,
                tool_name |-> prov[1], tool_version |-> prov[2],
                model_name |-> prov[3], model_version |-> prov[4],
                timestamp |-> timestamp]]

\* The two lists joined the other way round.
evidence_refs_counter_first(c) ==
    c.counter_evidence_ids \o c.supporting_evidence_ids

evidence_refs(c) == c.supporting_evidence_ids \o c.counter_evidence_ids

\* A fingerprint over the evidence lists as stored, not sorted.
run_fingerprint_unsorted(c) ==
    sha256([statement_hash |-> sha256(c.statement),
            confidence |-> c.confidence,
            supporting_evidence |-> c.supporting_evidence_ids,
            counter_evidence |-> c.counter_evidence_ids,
            timestamp |-> isoformat(c.timestamp),
            tool |-> Label(c.tool_name, c.tool_version),
            model |-> Label(c.model_name, c.model_version)])

run_fingerprint(c) ==
    sha256([statement_hash |-> sha256(c.statement),
            confidence |-> c.confidence,
            supporting_evidence |-> sorted(c.supporting_evidence_ids),
            counter_evidence |-> sorted(c.counter_evidence_ids),
            timestamp |-> isoformat(c.timestamp),
            tool |-> Label(c.tool_name, c.tool_version),
            model |-> Label(c.model_name, c.model_version)])

(***************************************************************************)
(* models/artifact.py                                                      *)
(***************************************************************************)
Artifact(artifact_type, content, parent, metadata, prov, timestamp) ==
    [id |-> NoId, artifact_type |-> artifact_type, content |-> content,
     parent_artifact_id |-> parent, metadata |-> metadata,
     tool_name |-> prov[1], tool_version |-> prov[2],
     model_name |-> prov[3], model_version |-> prov[4],
     timestamp |-> timestamp]

(***************************************************************************)
(* State.                                                                  *)
(***************************************************************************)
VARIABLES
    evidence,    \* EvidenceStore._evidence
    claims,      \* ClaimStore._claims
    artifacts,   \* ArtifactStore._artifacts
    now,         \* the clock read by datetime.utcnow()
    call,        \* the last store call: its name and what held of its
                 \* arguments when it was made
    result,      \* its outcome: the error raised ("" when none), the id returned
    input,       \* the arguments of the read call or pure function under way
                 \* (with the locals of a call that takes several steps)
    output,      \* what it returned (<<>> before it ran)
    plugins      \* PluginRegistry._plugins

vars ==
    <<evidence, claims, artifacts, now, call, result, input, output, plugins>>

Init ==
    /\ evidence = <<>>
    /\ claims = <<>>
    /\ artifacts = <<>>
    /\ now = 0
    /\ call = [op |-> "none"]
    /\ result = [error |-> "", id |-> NoId]
    /\ input = <<>>
    /\ output = <<>>
    /\ plugins = <<>>

\* Records held by the three stores together.
Stored == Len(evidence) + Len(claims) + Len(artifacts)

\* The clock advances between calls.
Tick ==
    /\ now < MaxTime
    /\ now' = now + 1
    /\ UNCHANGED <<evidence, claims, artifacts, call, result, input, output, plugins>>

(***************************************************************************)
(* storage/evidence_store.py                                               *)
(***************************************************************************)
get_evidence(evidence_id) == DictGet(evidence, evidence_id)

store_evidence(content, source, metadata, prov) ==
    /\ Stored < MaxRecords
    /\ \E evidence_id \in uuid4(UUIDs, evidence) :
         LET e == [Evidence(content, source, OrEmptyDict(metadata), prov, now)
                      EXCEPT !.id = evidence_id]
         IN /\ evidence' = DictSet(evidence, evidence_id, e)
            /\ result' = [error |-> "", id |-> evidence_id]
    /\ call' = [op |-> "store_evidence"]
    /\ UNCHANGED <<claims, artifacts, now, input, output, plugins>>

(***************************************************************************)
(* storage/claim_store.py                                                  *)
(***************************************************************************)
\* The ids among a call's arguments that the Evidence Store does not hold
\* when the call is made.
Absent(supporting, counter) ==
    {id \in RefIds :
        /\ id \notin Keys(evidence)
        /\ \/ \E i \in 1..Len(supporting) : supporting[i] = id
           \/ counter # NoList /\ \E i \in 1..Len(counter) : counter[i] = id}

\* A check that looks at supporting_evidence_ids only.
MissingEvidenceSupportingOnly(supporting, counter) ==
    {i \in 1..Len(supporting) :
          /\ DictGet(evidence, supporting[i]) = NoRecord
          /\ \A j \in 1..(i - 1) : DictGet(evidence, supporting[j]) # NoRecord}

\* A check that looks at the first id only.
MissingEvidenceFirstOnly(supporting, counter) ==
    LET all_evidence_ids == supporting \o OrEmptyList(counter)
    IN {i \in 1..Len(all_evidence_ids) :
          i = 1 /\ DictGet(evidence, all_evidence_ids[i]) = NoRecord}

\* The loop over all_evidence_ids: the first id that the Evidence Store does
\* not hold, as a set (empty when every id is held).
MissingEvidence(supporting, counter) ==
    LET all_evidence_ids == supporting \o OrEmptyList(counter)
    IN {i \in 1..Len(all_evidence_ids) :
          /\ get_evidence(all_evidence_ids[i]) = NoRecord
          /\ \A j \in 1..(i - 1) : get_evidence(all_evidence_ids[j]) # NoRecord}

\* A store_claim that inserts the claim before it learns that construction
\* failed.
store_claim_early_insert(statement, confidence, supporting, counter, metadata, prov) ==
    /\ Stored < MaxRecords
    /\ call' = [op |-> "store_claim",
                in_range |-> confidence \in ConfidenceGe..ConfidenceLe,
                has_refs |-> supporting # <<>> \/ counter \notin {NoList, <<>>},
                absent |-> Absent(supporting, counter) # {}]
    /\ LET claim == Claim(statement, confidence, supporting,
                          OrEmptyList(counter), OrEmptyDict(metadata), prov, now)
       IN IF MissingEvidence(supporting, counter) # {}
          THEN /\ result' = [error |-> "Evidence not found", id |-> NoId]
               /\ UNCHANGED claims
          ELSE \E claim_id \in uuid4(UUIDs, claims) :
                  /\ claims' = DictSet(claims, claim_id,
                                       [claim.value EXCEPT !.id = claim_id])
                  /\ result' = [error |-> claim.error,
                                id |-> IF claim.error = "" THEN claim_id
                                       ELSE NoId]
    /\ UNCHANGED <<evidence, artifacts, now, input, output, plugins>>

\* A store_claim that marks the evidence records as cited when it stores.
store_claim_marking_evidence(statement, confidence, supporting, counter, metadata, prov) ==
    /\ Stored < MaxRecords
    /\ call' = [op |-> "store_claim",
                in_range |-> confidence \in ConfidenceGe..ConfidenceLe,
                has_refs |-> supporting # <<>> \/ counter \notin {NoList, <<>>},
                absent |-> Absent(supporting, counter) # {}]
    /\ LET claim == Claim(statement, confidence, supporting,
                          OrEmptyList(counter), OrEmptyDict(metadata), prov, now)
       IN IF MissingEvidence(supporting, counter) # {}
          THEN /\ result' = [error |-> "Evidence not found", id |-> NoId]
               /\ UNCHANGED <<claims, evidence>>
          ELSE IF claim.error # ""
          THEN /\ result' = [error |-> claim.error, id |-> NoId]
               /\ UNCHANGED <<claims, evidence>>
          ELSE \E claim_id \in uuid4(UUIDs, claims) :
                  /\ claims' = DictSet(claims, claim_id,
                                       [claim.value EXCEPT !.id = claim_id])
                  /\ result' = [error |-> "", id |-> claim_id]
                  /\ evidence' =
                        [i \in 1..Len(evidence) |->
                            [evidence[i] EXCEPT
                               !.metadata = {<<<<"c">>, <<"c">>>>}]]
    /\ UNCHANGED <<artifacts, now, input, output, plugins>>

store_claim(statement, confidence, supporting, counter, metadata, prov) ==
    /\ Stored < MaxRecords
    /\ call' = [op |-> "store_claim",
                in_range |-> confidence \in ConfidenceGe..ConfidenceLe,
                has_refs |-> supporting # <<>> \/ counter \notin {NoList, <<>>},
                absent |-> Absent(supporting, counter) # {}]
    /\ LET claim == Claim(statement, confidence, supporting,
                          OrEmptyList(counter), OrEmptyDict(metadata), prov, now)
       IN IF MissingEvidence(supporting, counter) # {}
          THEN /\ result' = [error |-> "Evidence not found", id |-> NoId]
               /\ UNCHANGED claims
          ELSE IF claim.error # ""
          THEN /\ result' = [error |-> claim.error, id |-> NoId]
               /\ UNCHANGED claims
          ELSE \E claim_id \in uuid4(UUIDs, claims) :
                  /\ claims' = DictSet(claims, claim_id,
                                       [claim.value EXCEPT !.id = claim_id])
                  /\ result' = [error |-> "", id |-> claim_id]
    /\ UNCHANGED <<evidence, artifacts, now, input, output, plugins>>

get_claim(claim_id) == DictGet(claims, claim_id)

count_claims == Len(claims)

(***************************************************************************)
(* storage/artifact_store.py                                               *)
(***************************************************************************)
\* The parent ids the stored artifacts carry.
Parents == {artifacts[i].parent_artifact_id : i \in 1..Len(artifacts)}

store_artifact(artifact_type, content, parent, metadata, prov) ==
    /\ Stored < MaxRecords
    /\ \E artifact_id \in uuid4_unpredicted(UUIDs, artifacts,
                                             Parents \cup {parent}) :
         LET a == [Artifact(artifact_type, content, parent,
                            OrEmptyDict(metadata), prov, now)
                      EXCEPT !.id = artifact_id]
         IN /\ artifacts' = DictSet(artifacts, artifact_id, a)
            /\ result' = [error |-> "", id |-> artifact_id]
    /\ call' = [op |-> "store_artifact"]
    /\ UNCHANGED <<evidence, claims, now, input, output, plugins>>

get_artifact(artifact_id) == DictGet(artifacts, artifact_id)

(***************************************************************************)
(* The store operations, called in any order with any inputs.              *)
(***************************************************************************)
StoreEvidence ==
    \E content \in Contents, source \in Sources, metadata \in Metadatas,
       prov \in Provenances :
        store_evidence(content, source, metadata, prov)

StoreClaim ==
    \E statement \in Statements, confidence \in Confidences,
       supporting \in SupportingInputs, counter \in CounterInputs,
       metadata \in Metadatas, prov \in Provenances :
        store_claim(statement, confidence, supporting, counter, metadata, prov)

StoreArtifact ==
    \E artifact_type \in ArtifactTypes, content \in ArtifactContents,
       parent \in ParentInputs, metadata \in Metadatas, prov \in Provenances :
        store_artifact(artifact_type, content, parent, metadata, prov)

Next ==
    \/ Tick
    \/ StoreEvidence
    \/ StoreClaim
    \/ StoreArtifact

Spec == Init /\ [][Next]_vars

(***************************************************************************)
(* A caller holding the Evidence object that store_evidence or             *)
(* get_evidence returned.  The store hands out the object it holds, and    *)
(* Evidence is a BaseModel that is not frozen: assigning to a field is     *)
(* accepted and changes the stored record.                                 *)
(***************************************************************************)
Evidence_setattr_content ==
    /\ \E i \in 1..Len(evidence), content \in Contents :
          /\ content # evidence[i].content
          /\ evidence' = [evidence EXCEPT ![i].content = content]
    /\ call' = [op |-> "setattr"]
    /\ UNCHANGED <<claims, artifacts, now, result, input, output, plugins>>

NextCaller ==
    \/ Tick
    \/ StoreEvidence
    \/ StoreClaim
    \/ StoreArtifact
    \/ Evidence_setattr_content

SpecCaller == Init /\ [][NextCaller]_vars

(***************************************************************************)
(* The derived fields of two Claim objects constructed by a caller.        *)
(***************************************************************************)
PairIds == {1, 2}
PairStatements == {"s", "t"}
PairConfidences == {5, 10}
PairLists == SeqsUpTo(PairIds, MaxLen)
ClaimPairProvenances ==
    {<<None, None, None, None>>, <<<<"a">>, <<"c">>, None, None>>}

\* The claims that construction accepts.
ClaimSamples ==
    LET made == {Claim(st, cf, su, co, EmptyDict, pv, 0) :
                    st \in PairStatements, cf \in PairConfidences,
                    su \in PairLists, co \in PairLists,
                    pv \in ClaimPairProvenances}
    IN {m.value : m \in {x \in made : x.error = ""}}

InitClaimPair ==
    /\ evidence = <<>>
    /\ claims = <<>>
    /\ artifacts = <<>>
    /\ now = 0
    /\ call = [op |-> "none"]
    /\ result = [error |-> "", id |-> NoId]
    /\ input \in ClaimSamples \X ClaimSamples
    /\ output = <<>>
    /\ plugins = <<>>

\* Read evidence_refs and run_fingerprint of both claims.
ReadClaimPair ==
    /\ output = <<>>
    /\ output' = [evidence_refs |->
                     <<evidence_refs(input[1]), evidence_refs(input[2])>>,
                  run_fingerprint |->
                     <<run_fingerprint(input[1]), run_fingerprint(input[2])>>]
    /\ UNCHANGED <<evidence, claims, artifacts, now, call, result, input, plugins>>

NextClaimPair == ReadClaimPair

SpecClaimPair == InitClaimPair /\ [][NextClaimPair]_vars

(***************************************************************************)
(* The derived fields of two Evidence objects constructed by a caller.     *)
(***************************************************************************)
PairNames == {None, <<"a">>, <<"a", ":", "b">>}
PairVersions == {None, <<"c">>, <<"b", ":", "c">>, <<"N", "o", "n", "e">>}
PairModelNames == {None, <<"m">>}
PairModelVersions == {None, <<"v">>}
EvidencePairProvenances ==
    PairNames \X PairVersions \X PairModelNames \X PairModelVersions

EvidenceSamples ==
    {Evidence(c, s, EmptyDict, pv, t) :
        c \in Contents, s \in Sources, pv \in EvidencePairProvenances,
        t \in 0..MaxTime}

InitEvidencePair ==
    /\ evidence = <<>>
    /\ claims = <<>>
    /\ artifacts = <<>>
    /\ now = 0
    /\ call = [op |-> "none"]
    /\ result = [error |-> "", id |-> NoId]
    /\ input \in EvidenceSamples \X EvidenceSamples
    /\ output = <<>>
    /\ plugins = <<>>

\* Read sha256 and fingerprint of both records.
ReadEvidencePair ==
    /\ output = <<>>
    /\ output' = [sha256 |->
                     <<Evidence_sha256(input[1]), Evidence_sha256(input[2])>>,
                  fingerprint |->
                     <<Evidence_fingerprint(input[1]),
                       Evidence_fingerprint(input[2])>>]
    /\ UNCHANGED <<evidence, claims, artifacts, now, call, result, input, plugins>>

NextEvidencePair == ReadEvidencePair

SpecEvidencePair == InitEvidencePair /\ [][NextEvidencePair]_vars

(***************************************************************************)
(* Properties of the stores, checked under Spec.                           *)
(***************************************************************************)
\* The step just taken was a store call (the clock did not move).
StoreStep == now' = now

\* d' is d with exactly one record appended, under a key d did not hold.
Appended(d, dnew) ==
    /\ Len(dnew) = Len(d) + 1
    /\ SubSeq(dnew, 1, Len(d)) = d
    /\ dnew[Len(dnew)].id \notin Keys(d)
    /\ dnew[Len(dnew)].id = result'.id

\* C1: referential integrity.  In every state reached by store_evidence and
\* store_claim calls, successful or failed, every id in the
\* supporting_evidence_ids and counter_evidence_ids of every claim the Claim
\* Store holds is the id of a record of the Evidence Store.
C1_ReferentialIntegrity ==
    \A i \in 1..Len(claims) :
        /\ \A j \in 1..Len(claims[i].supporting_evidence_ids) :
              claims[i].supporting_evidence_ids[j] \in Keys(evidence)
        /\ \A j \in 1..Len(claims[i].counter_evidence_ids) :
              claims[i].counter_evidence_ids[j] \in Keys(evidence)

\* A claim with a supporting and a counter reference is held, and the last
\* store_claim call was rejected for naming an absent id.
C1_Witness ==
    /\ \E i \in 1..Len(claims) :
          /\ claims[i].supporting_evidence_ids # <<>>
          /\ claims[i].counter_evidence_ids # <<>>
    /\ call.op = "store_claim"
    /\ result.error = "Evidence not found"

\* C2: store_claim raises 'Evidence not found' if and only if some id among
\* its supporting or counter ids is absent from the Evidence Store when the
\* call is made, whatever the confidence and the number of references.
C2_EvidenceNotFoundIff ==
    call.op = "store_claim" =>
        (result.error = "Evidence not found" <=> call.absent)

\* A call that named an absent id with an out-of-range confidence was
\* rejected for the absent id.
C2_Witness ==
    /\ call.op = "store_claim"
    /\ call.absent
    /\ ~call.in_range
    /\ result.error = "Evidence not found"

\* C3: a store_claim call that fails, for an absent id or for a validation
\* error, leaves the Claim Store as it was: the same claims under the same
\* ids, the same count.
C3_FailedStoreChangesNothing ==
    [][(StoreStep /\ call'.op = "store_claim" /\ result'.error # "")
          => /\ claims' = claims
             /\ Len(claims') = count_claims
             /\ \A id \in UUIDs : DictGet(claims', id) = get_claim(id)]_vars

\* A store_claim call failed validation while the Claim Store held a claim.
C3_Witness ==
    /\ Len(claims) >= 1
    /\ call.op = "store_claim"
    /\ result.error \in {"ValidationError", "No claim without evidence_ref"}

\* C4: the three stores are append-only.  A successful store call appends
\* exactly one record, under an id its store did not hold, and leaves the
\* other records of every store in place; no step removes a record or
\* changes the record held under an id.
C4_AppendOnly ==
    [][/\ \A id \in Keys(evidence) : DictGet(evidence', id) = DictGet(evidence, id)
       /\ \A id \in Keys(claims) : DictGet(claims', id) = DictGet(claims, id)
       /\ \A id \in Keys(artifacts) : DictGet(artifacts', id) = DictGet(artifacts, id)
       /\ (StoreStep /\ result'.error = "") =>
             \/ call'.op = "store_evidence" /\ Appended(evidence, evidence')
                  /\ UNCHANGED <<claims, artifacts>>
             \/ call'.op = "store_claim" /\ Appended(claims, claims')
                  /\ UNCHANGED <<evidence, artifacts>>
             \/ call'.op = "store_artifact" /\ Appended(artifacts, artifacts')
                  /\ UNCHANGED <<evidence, claims>>]_vars

\* Each of the three stores holds a record.
C4_Witness ==
    /\ Len(evidence) >= 1
    /\ Len(claims) >= 1
    /\ Len(artifacts) >= 1

\* C6: a claim without any evidence reference is never constructed: a
\* store_claim call with both lists empty fails with a validation error, a
\* call with a reference, every referenced id present and confidence in
\* [0,1] succeeds, and every stored claim has at least one reference.
C6_NoClaimWithoutEvidence ==
    /\ (call.op = "store_claim" /\ ~call.has_refs) =>
          /\ result.error \in {"ValidationError", "No claim without evidence_ref"}
          /\ call.in_range => result.error = "No claim without evidence_ref"
    /\ (call.op = "store_claim" /\ call.has_refs /\ call.in_range /\ ~call.absent)
          => result.error = ""
    /\ \A i \in 1..Len(claims) :
          Len(claims[i].supporting_evidence_ids)
            + Len(claims[i].counter_evidence_ids) >= 1

\* A claim whose only reference is a counter reference is held, and a call
\* with both lists empty and a valid confidence was rejected.
C6_Witness ==
    /\ \E i \in 1..Len(claims) :
          /\ claims[i].supporting_evidence_ids = <<>>
          /\ Len(claims[i].counter_evidence_ids) = 1
    /\ call.op = "store_claim"
    /\ ~call.has_refs
    /\ call.in_range
    /\ result.error = "No claim without evidence_ref"

\* C7: confidence lies in [0.0, 1.0].  A store_claim call that passes the
\* evidence check and has a reference succeeds exactly when its confidence
\* is in the closed interval, the rejection is a validation error, and
\* every stored claim has a confidence from 0.0 to 1.0, ends included.
C7_ConfidenceInUnitInterval ==
    /\ (call.op = "store_claim" /\ ~call.absent /\ call.has_refs) =>
          /\ result.error = "" <=> call.in_range
          /\ ~call.in_range => result.error = "ValidationError"
    /\ \A i \in 1..Len(claims) :
          claims[i].confidence >= 0 /\ claims[i].confidence <= 10

\* A claim of confidence 0.0 and a claim of confidence 1.0 are held.
C7_Witness ==
    \E i, j \in 1..Len(claims) :
        claims[i].confidence = 0 /\ claims[j].confidence = 10

(***************************************************************************)
(* Checked under SpecCaller.                                               *)
(***************************************************************************)
\* C5: the content of a stored Evidence record never changes, nor do its
\* sha256 and its fingerprint, whatever a caller does with the record object
\* that store_evidence or get_evidence returned.
C5_ContentImmutable ==
    [][\A id \in Keys(evidence) :
          /\ DictGet(evidence', id).content = DictGet(evidence, id).content
          /\ Evidence_sha256(DictGet(evidence', id))
                = Evidence_sha256(DictGet(evidence, id))
          /\ Evidence_fingerprint(DictGet(evidence', id))
                = Evidence_fingerprint(DictGet(evidence, id))]_vars

(***************************************************************************)
(* Checked under SpecClaimPair.                                            *)
(***************************************************************************)
\* Number of times x occurs in s.
Count(s, x) == Cardinality({i \in 1..Len(s) : s[i] = x})

\* s and t hold the same ids the same number of times.
IsPermutation(s, t) ==
    /\ Len(s) = Len(t)
    /\ \A x \in PairIds : Count(s, x) = Count(t, x)

\* r is s followed by t.
IsConcatenation(r, s, t) ==
    /\ Len(r) = Len(s) + Len(t)
    /\ \A i \in 1..Len(s) : r[i] = s[i]
    /\ \A i \in 1..Len(t) : r[Len(s) + i] = t[i]

\* C8: evidence_refs of a claim is its supporting_evidence_ids followed by
\* its counter_evidence_ids, each in its own order and with its duplicates;
\* its length is the sum of the two lengths.
C8_EvidenceRefsIsConcatenation ==
    output # <<>> =>
        \A k \in 1..2 :
            IsConcatenation(output.evidence_refs[k],
                            input[k].supporting_evidence_ids,
                            input[k].counter_evidence_ids)

\* evidence_refs was read of a claim with a repeated supporting id, out of
\* order, and a counter id.
C8_Witness ==
    /\ output # <<>>
    /\ input[1].supporting_evidence_ids = <<2, 2>>
    /\ input[1].counter_evidence_ids = <<1, 2>>
    /\ output.evidence_refs[1] = <<2, 2, 1, 2>>

\* C9: two claims with the same statement, confidence, timestamp and
\* tool/model provenance whose supporting lists are permutations of each
\* other, and whose counter lists are, have the same run_fingerprint, while
\* the evidence_refs of each is in its own stored order.
C9_FingerprintOrderIndependent ==
    (/\ output # <<>>
     /\ input[1].statement = input[2].statement
     /\ input[1].confidence = input[2].confidence
     /\ input[1].timestamp = input[2].timestamp
     /\ input[1].tool_name = input[2].tool_name
     /\ input[1].tool_version = input[2].tool_version
     /\ input[1].model_name = input[2].model_name
     /\ input[1].model_version = input[2].model_version
     /\ IsPermutation(input[1].supporting_evidence_ids,
                      input[2].supporting_evidence_ids)
     /\ IsPermutation(input[1].counter_evidence_ids,
                      input[2].counter_evidence_ids))
    => /\ output.run_fingerprint[1] = output.run_fingerprint[2]
       /\ \A k \in 1..2 :
             /\ SubSeq(output.evidence_refs[k], 1,
                       Len(input[k].supporting_evidence_ids))
                  = input[k].supporting_evidence_ids
             /\ SubSeq(output.evidence_refs[k],
                       Len(input[k].supporting_evidence_ids) + 1,
                       Len(output.evidence_refs[k]))
                  = input[k].counter_evidence_ids

\* Two claims that differ only in the order of both lists were read: equal
\* fingerprints, different evidence_refs.
C9_Witness ==
    /\ output # <<>>
    /\ input[1].supporting_evidence_ids = <<1, 2>>
    /\ input[2].supporting_evidence_ids = <<2, 1>>
    /\ input[1].counter_evidence_ids = <<2, 1>>
    /\ input[2].counter_evidence_ids = <<1, 2>>
    /\ input[1].statement = input[2].statement
    /\ input[1].confidence = input[2].confidence
    /\ input[1].tool_name = input[2].tool_name
    /\ input[1].tool_version = input[2].tool_version
    /\ output.run_fingerprint[1] = output.run_fingerprint[2]
    /\ output.evidence_refs[1] # output.evidence_refs[2]

(***************************************************************************)
(* Checked under SpecEvidencePair.                                         *)
(***************************************************************************)
\* C10: two Evidence records with the same content have the same sha256,
\* and two records that differ in timestamp, tool_name, tool_version,
\* model_name or model_version have different fingerprints.
C10_FingerprintSeparatesProvenance ==
    output # <<>> =>
        /\ input[1].content = input[2].content
              => output.sha256[1] = output.sha256[2]
        /\ (\/ input[1].timestamp # input[2].timestamp
            \/ input[1].tool_name # input[2].tool_name
            \/ input[1].tool_version # input[2].tool_version
            \/ input[1].model_name # input[2].model_name
            \/ input[1].model_version # input[2].model_version)
              => output.fingerprint[1] # output.fingerprint[2]

(***************************************************************************)
(* The read operations of the Evidence Store and the Artifact Store.       *)
(***************************************************************************)
\* None for an Optional[str] argument whose strings are held whole.
NoStr == "<None>"
\* None for an Optional[datetime] argument.
NoTime == -1
\* None for an Optional[int] argument.
NoLimit == -1

\* bool(s) for an Optional[str]: None and "" are falsy.
StrTruthy(s) == s # NoStr /\ s # ""

\* bool(t) for an Optional[datetime]: every datetime is truthy.
TimeTruthy(t) == t # NoTime

\* bool(n) for an Optional[int]: None and 0 are falsy.
IntTruthy(n) == n # NoLimit /\ n # 0

\* s[:n]
SliceTo(s, n) ==
    IF n >= 0
    THEN SubSeq(s, 1, IF n < Len(s) THEN n ELSE Len(s))
    ELSE SubSeq(s, 1, IF Len(s) + n > 0 THEN Len(s) + n ELSE 0)

\* a < b for two tuples of numbers, as Python compares tuples.
RECURSIVE TupleLess(_, _)
TupleLess(a, b) ==
    IF a = <<>> \/ b = <<>> THEN a = <<>> /\ b # <<>>
    ELSE IF Head(a) # Head(b) THEN Head(a) < Head(b)
    ELSE TupleLess(Tail(a), Tail(b))

\* list.sort(key=..., reverse=True) on a list of [key, value]: descending by
\* key, stable (values of equal key keep their order).
RECURSIVE InsertReverse(_, _)
InsertReverse(x, s) ==
    IF s = <<>> THEN <<x>>
    ELSE IF TupleLess(Head(s).key, x.key) THEN <<x>> \o s
    ELSE <<Head(s)>> \o InsertReverse(x, Tail(s))

RECURSIVE sort_reverse(_)
sort_reverse(s) ==
    IF s = <<>> THEN <<>>
    ELSE InsertReverse(s[Len(s)], sort_reverse(SubSeq(s, 1, Len(s) - 1)))

\* results.sort(key=lambda e: e.timestamp, reverse=True)
SortByTimestamp(results) ==
    LET keyed == [i \in 1..Len(results) |->
                     [key |-> <<results[i].timestamp>>, value |-> results[i]]]
        ordered == sort_reverse(keyed)
    IN [i \in 1..Len(ordered) |-> ordered[i].value]

list_evidence(source, since, limit) ==
    LET all == evidence
        by_source == IF StrTruthy(source)
                     THEN SelectSeq(all, LAMBDA e : e.source = source)
                     ELSE all
        by_since == IF TimeTruthy(since)
                    THEN SelectSeq(by_source, LAMBDA e : e.timestamp >= since)
                    ELSE by_source
        results == SortByTimestamp(by_since)
    IN IF IntTruthy(limit) THEN SliceTo(results, limit) ELSE results

\* A verify_evidence that takes an absent record for a valid one.
verify_evidence_absent_valid(evidence_id) ==
    LET e == get_evidence(evidence_id)
    IN IF e = NoRecord THEN TRUE ELSE Evidence_sha256(e) = Evidence_sha256(e)

verify_evidence(evidence_id) ==
    LET e == get_evidence(evidence_id)
    IN IF e = NoRecord THEN FALSE ELSE Evidence_sha256(e) = Evidence_sha256(e)

Artifact_sha256(a) == sha256(a.content)

list_artifacts(artifact_type, parent, since, limit) ==
    LET all == artifacts
        by_type == IF StrTruthy(artifact_type)
                   THEN SelectSeq(all, LAMBDA a : a.artifact_type = artifact_type)
                   ELSE all
        by_parent == IF parent # NoId
                     THEN SelectSeq(by_type,
                                    LAMBDA a : a.parent_artifact_id = parent)
                     ELSE by_type
        by_since == IF TimeTruthy(since)
                    THEN SelectSeq(by_parent, LAMBDA a : a.timestamp >= since)
                    ELSE by_parent
        results == SortByTimestamp(by_since)
    IN IF IntTruthy(limit) THEN SliceTo(results, limit) ELSE results

verify_artifact(artifact_id) ==
    LET a == get_artifact(artifact_id)
    IN IF a = NoRecord THEN FALSE ELSE Artifact_sha256(a) = Artifact_sha256(a)

\* What the callers of the read operations supply.
ReadSources == {"manual", "api"}
SourceFilters == {NoStr, "", "manual"}
ReadTypes == {"report", "derived"}
TypeFilters == {NoStr, "report"}
SinceFilters == {NoTime, MaxTime}
Limits == {NoLimit, 0, 1}

ReadsStoreEvidence ==
    /\ Stored < MaxReadRecords
    /\ \E source \in ReadSources, prov \in Provenances :
           store_evidence("a", source, NoDict, prov)

ReadsStoreArtifact ==
    /\ Stored < MaxReadRecords
    /\ \E artifact_type \in ReadTypes, prov \in Provenances :
           store_artifact(artifact_type, "a", NoId, NoDict, prov)

ListEvidence ==
    \E source \in SourceFilters, since \in SinceFilters, limit \in Limits :
        /\ call' = [op |-> "list_evidence"]
        /\ input' = [source |-> source, since |-> since, limit |-> limit]
        /\ output' = list_evidence(source, since, limit)
        /\ UNCHANGED <<evidence, claims, artifacts, now, result, plugins>>

ListArtifacts ==
    \E artifact_type \in TypeFilters, since \in SinceFilters, limit \in Limits :
        /\ call' = [op |-> "list_artifacts"]
        /\ input' = [artifact_type |-> artifact_type, since |-> since,
                     limit |-> limit]
        /\ output' = list_artifacts(artifact_type, NoId, since, limit)
        /\ UNCHANGED <<evidence, claims, artifacts, now, result, plugins>>

VerifyEvidence ==
    \E evidence_id \in RefIds :
        /\ call' = [op |-> "verify_evidence"]
        /\ input' = [id |-> evidence_id]
        /\ output' = <<verify_evidence(evidence_id)>>
        /\ UNCHANGED <<evidence, claims, artifacts, now, result, plugins>>

VerifyArtifact ==
    \E artifact_id \in RefIds :
        /\ call' = [op |-> "verify_artifact"]
        /\ input' = [id |-> artifact_id]
        /\ output' = <<verify_artifact(artifact_id)>>
        /\ UNCHANGED <<evidence, claims, artifacts, now, result, plugins>>

NextReads ==
    \/ Tick
    \/ ReadsStoreEvidence
    \/ ReadsStoreArtifact
    \/ ListEvidence
    \/ ListArtifacts
    \/ VerifyEvidence
    \/ VerifyArtifact

SpecReads == Init /\ [][NextReads]_vars

\* A step that is a call of the read operation op: it leaves the clock alone
\* and records op as the last call.
ReadStep(op) == now' = now /\ call'.op = op

\* The stored evidence that satisfies the filters a caller gave.
MatchesEvidence(e, source, since) ==
    /\ source # NoStr => e.source = source
    /\ since # NoTime => e.timestamp >= since

MatchesArtifact(a, artifact_type, since) ==
    /\ artifact_type # NoStr => a.artifact_type = artifact_type
    /\ since # NoTime => a.timestamp >= since

Range(s) == {s[i] : i \in 1..Len(s)}

NewestFirst(s) ==
    \A i, j \in 1..Len(s) : i < j => s[i].timestamp >= s[j].timestamp

Min(a, b) == IF a < b THEN a ELSE b

\* C11: list_evidence applies its filters conjunctively: for every source and
\* every since the caller gives, each returned record has that source and a
\* timestamp >= since, and with no limit every stored record that satisfies
\* all given filters is returned.
C11_ListEvidenceConjunctive ==
    [][ReadStep("list_evidence") =>
         /\ \A r \in Range(output') :
               MatchesEvidence(r, input'.source, input'.since)
         /\ input'.limit = NoLimit =>
               (\A e \in Range(evidence) :
                   (MatchesEvidence(e, input'.source, input'.since)
                       => e \in Range(output')))]_vars

\* C12: list_evidence and list_artifacts return their matches newest first,
\* and whenever a limit is given the result is the first `limit` records of
\* that ordering: its length is min(limit, number of matching records) and
\* never exceeds the limit.
C12_NewestFirstAndLimit ==
    [][/\ ReadStep("list_evidence") =>
            LET matches == list_evidence(input'.source, input'.since, NoLimit)
            IN /\ NewestFirst(output')
               /\ input'.limit # NoLimit =>
                     /\ output' = SubSeq(matches, 1, Len(output'))
                     /\ Len(output') = Min(input'.limit, Len(matches))
                     /\ Len(output') <= input'.limit
       /\ ReadStep("list_artifacts") =>
            LET matches == list_artifacts(input'.artifact_type, NoId,
                                          input'.since, NoLimit)
            IN /\ NewestFirst(output')
               /\ input'.limit # NoLimit =>
                     /\ output' = SubSeq(matches, 1, Len(output'))
                     /\ Len(output') = Min(input'.limit, Len(matches))
                     /\ Len(output') <= input'.limit]_vars

\* C16: verify_evidence(id) and verify_artifact(id) return false when id is
\* absent from the store and true for every record present in it, and
\* neither call changes the store.
C16_VerifyPresence ==
    [][/\ ReadStep("verify_evidence") =>
            /\ output' = <<input'.id \in Keys(evidence)>>
            /\ UNCHANGED <<evidence, claims, artifacts>>
       /\ ReadStep("verify_artifact") =>
            /\ output' = <<input'.id \in Keys(artifacts)>>
            /\ UNCHANGED <<evidence, claims, artifacts>>]_vars

C16_Witness ==
    /\ call.op = "verify_evidence"
    /\ evidence # <<>>
    /\ input.id \notin Keys(evidence)
    /\ output = <<FALSE>>

(***************************************************************************)
(* The read operations of the Claim Store.                                 *)
(***************************************************************************)
\* None for an Optional[float] argument (confidence in tenths).
NoConfidence == -100

\* A sort by confidence alone: claims of equal confidence keep store order.
SortByConfidenceOnly(results) ==
    LET keyed == [i \in 1..Len(results) |->
                     [key |-> <<results[i].confidence>>, value |-> results[i]]]
        ordered == sort_reverse(keyed)
    IN [i \in 1..Len(ordered) |-> ordered[i].value]

\* results.sort(key=lambda c: (c.confidence, c.timestamp), reverse=True)
SortByConfidence(results) ==
    LET keyed == [i \in 1..Len(results) |->
                     [key |-> <<results[i].confidence, results[i].timestamp>>,
                      value |-> results[i]]]
        ordered == sort_reverse(keyed)
    IN [i \in 1..Len(ordered) |-> ordered[i].value]

list_claims(min_confidence, since, limit) ==
    LET all == claims
        by_confidence == IF min_confidence # NoConfidence
                         THEN SelectSeq(all,
                                  LAMBDA c : c.confidence >= min_confidence)
                         ELSE all
        by_since == IF TimeTruthy(since)
                    THEN SelectSeq(by_confidence,
                                   LAMBDA c : c.timestamp >= since)
                    ELSE by_confidence
        results == SortByConfidence(by_since)
    IN IF IntTruthy(limit) THEN SliceTo(results, limit) ELSE results

\* The occurrences of x in s.
Occurrences(s, x) == Cardinality({i \in 1..Len(s) : s[i] = x})

\* A lookup that appends a claim once for each reference it makes.
RECURSIVE get_claims_by_evidence_per_reference(_, _)
get_claims_by_evidence_per_reference(evidence_id, cs) ==
    IF cs = <<>> THEN <<>>
    ELSE [i \in 1..Occurrences(evidence_refs(Head(cs)), evidence_id)
             |-> Head(cs)]
         \o get_claims_by_evidence_per_reference(evidence_id, Tail(cs))

\* The loop over self._claims.values(), cs being the claims not yet visited.
RECURSIVE get_claims_by_evidence(_, _)
get_claims_by_evidence(evidence_id, cs) ==
    IF cs = <<>> THEN <<>>
    ELSE (IF Occurrences(evidence_refs(Head(cs)), evidence_id) > 0
          THEN <<Head(cs)>> ELSE <<>>)
         \o get_claims_by_evidence(evidence_id, Tail(cs))

\* What the callers of the claim store supply.
ClaimReadConfidences == {5, 10}
MinConfidences == {NoConfidence, 0, 5, 10}
ClaimLimits == {NoLimit, 1}
StoredLists == {<<>>} \cup {<<e>> : e \in Keys(evidence)}

ClaimReadsStoreEvidence ==
    /\ evidence = <<>>
    /\ \E prov \in Provenances : store_evidence("a", "manual", NoDict, prov)

ClaimReadsStoreClaim ==
    \E confidence \in ClaimReadConfidences,
       supporting \in StoredLists, counter \in StoredLists,
       prov \in Provenances :
        /\ supporting \o counter # <<>>
        /\ store_claim("s", confidence, supporting, counter, NoDict, prov)

ListClaims ==
    \E min_confidence \in MinConfidences, since \in SinceFilters,
       limit \in ClaimLimits :
        /\ call' = [op |-> "list_claims"]
        /\ input' = [min_confidence |-> min_confidence, since |-> since,
                     limit |-> limit]
        /\ output' = list_claims(min_confidence, since, limit)
        /\ UNCHANGED <<evidence, claims, artifacts, now, result, plugins>>

GetClaimsByEvidence ==
    \E evidence_id \in RefIds :
        /\ call' = [op |-> "get_claims_by_evidence"]
        /\ input' = [id |-> evidence_id]
        /\ output' = get_claims_by_evidence(evidence_id, claims)
        /\ UNCHANGED <<evidence, claims, artifacts, now, result, plugins>>

NextClaimReads ==
    \/ Tick
    \/ ClaimReadsStoreEvidence
    \/ ClaimReadsStoreClaim
    \/ ListClaims
    \/ GetClaimsByEvidence

SpecClaimReads == Init /\ [][NextClaimReads]_vars

\* C13: list_claims returns only claims with confidence >= min_confidence
\* (inclusive: a claim whose confidence is the minimum passes the filter,
\* min_confidence = 0 included) and timestamp >= since when those filters are
\* given, ordered by confidence descending, claims of equal confidence
\* by timestamp descending.
C13_ListClaimsFilterAndOrder ==
    [][ReadStep("list_claims") =>
         /\ \A r \in Range(output') :
               /\ input'.min_confidence # NoConfidence
                     => r.confidence >= input'.min_confidence
               /\ input'.since # NoTime => r.timestamp >= input'.since
         /\ \A c \in Range(claims) :
               (/\ input'.limit = NoLimit
                /\ c.confidence = input'.min_confidence
                /\ input'.since # NoTime => c.timestamp >= input'.since)
                   => c \in Range(output')
         /\ \A i, j \in 1..Len(output') :
               i < j =>
                 \/ output'[i].confidence > output'[j].confidence
                 \/ /\ output'[i].confidence = output'[j].confidence
                    /\ output'[i].timestamp >= output'[j].timestamp]_vars

C13_Witness ==
    /\ call.op = "list_claims"
    /\ Len(output) = 2
    /\ output[1].confidence = input.min_confidence
    /\ output[2].confidence = input.min_confidence
    /\ output[1].timestamp > output[2].timestamp
    /\ output[1] = claims[2]

\* The claims that refer to e, in either list.
Refers(c, e) ==
    \/ \E i \in 1..Len(c.supporting_evidence_ids) :
          c.supporting_evidence_ids[i] = e
    \/ \E i \in 1..Len(c.counter_evidence_ids) : c.counter_evidence_ids[i] = e

\* C14: get_claims_by_evidence(e) returns exactly the stored claims whose
\* supporting or counter list contains e: each such claim once, even if it
\* refers to e more than once, in store insertion order, no other claim, and
\* nothing when no claim refers to e.
C14_ClaimsByEvidenceExact ==
    [][ReadStep("get_claims_by_evidence") =>
         /\ output' = SelectSeq(claims, LAMBDA c : Refers(c, input'.id))
         /\ (\A c \in Range(claims) : ~Refers(c, input'.id)) => output' = <<>>
      ]_vars

C14_Witness ==
    /\ call.op = "get_claims_by_evidence"
    /\ Len(output) = 2
    /\ output = claims
    /\ output[1].supporting_evidence_ids = <<input.id>>
    /\ output[1].counter_evidence_ids = <<input.id>>

(***************************************************************************)
(* ArtifactStore.get_artifact_lineage, one loop iteration per step.  While *)
(* the call runs, input holds its argument, the local current_id and the   *)
(* position (pc), and output holds the local list lineage; at pc = "done"  *)
(* output is what the call returns.                                        *)
(***************************************************************************)
\* bool(i) for an Optional[str] identifier: None is falsy.
IdTruthy(i) == i # NoId

Walking == call.op = "get_artifact_lineage" /\ input.pc = "loop"

Returned == call.op = "get_artifact_lineage" /\ input.pc = "done"

\* lineage = []; current_id = artifact_id
get_artifact_lineage_enter(artifact_id) ==
    /\ ~Walking
    /\ call' = [op |-> "get_artifact_lineage"]
    /\ input' = [artifact_id |-> artifact_id, current_id |-> artifact_id,
                 pc |-> "loop"]
    /\ output' = <<>>
    /\ UNCHANGED <<evidence, claims, artifacts, now, result, plugins>>

\* A loop that appends each artifact it visits, youngest first.
get_artifact_lineage_loop_appending ==
    /\ Walking
    /\ IF ~IdTruthy(input.current_id)
       THEN /\ input' = [input EXCEPT !.pc = "done"]
            /\ UNCHANGED output
       ELSE LET artifact == get_artifact(input.current_id)
            IN IF artifact = NoRecord
               THEN /\ input' = [input EXCEPT !.pc = "done"]
                    /\ UNCHANGED output
               ELSE /\ output' = Append(output, artifact)
                    /\ input' = [input EXCEPT
                                    !.current_id = artifact.parent_artifact_id]
    /\ UNCHANGED <<evidence, claims, artifacts, now, call, result, plugins>>

\* One evaluation of `while current_id:` and of the loop body.
get_artifact_lineage_loop ==
    /\ Walking
    /\ IF ~IdTruthy(input.current_id)
       THEN /\ input' = [input EXCEPT !.pc = "done"]
            /\ UNCHANGED output
       ELSE LET artifact == get_artifact(input.current_id)
            IN IF artifact = NoRecord
               THEN /\ input' = [input EXCEPT !.pc = "done"]
                    /\ UNCHANGED output
               ELSE /\ output' = <<artifact>> \o output
                    /\ input' = [input EXCEPT
                                    !.current_id = artifact.parent_artifact_id]
    /\ UNCHANGED <<evidence, claims, artifacts, now, call, result, plugins>>

LineageStoreArtifact ==
    /\ ~Walking
    /\ \E parent \in ParentInputs, prov \in Provenances :
           store_artifact("report", "a", parent, NoDict, prov)

LineageEnter ==
    \E artifact_id \in {NoId} \cup RefIds :
        get_artifact_lineage_enter(artifact_id)

LineageLoop == get_artifact_lineage_loop

NextLineage ==
    \/ Tick
    \/ LineageStoreArtifact
    \/ LineageEnter
    \/ LineageLoop

\* A call that has started keeps running: the interpreter goes on executing
\* the loop until it exits.
SpecLineage == Init /\ [][NextLineage]_vars /\ WF_vars(LineageLoop)

\* C15: get_artifact_lineage terminates for every artifact id in every store
\* state reachable through store_artifact calls, dangling parent references
\* included: the walk visits no more artifacts than the store holds, every
\* call that started returns, and a missing parent ends the walk with the
\* chain collected so far instead of an error.
C15_LineageTerminates ==
    /\ [](Walking => Len(output) <= Len(artifacts))
    /\ Walking ~> Returned
    /\ [](Returned =>
            /\ result.error = ""
            /\ output # <<>> =>
                  /\ output[Len(output)].id = input.artifact_id
                  /\ \A i \in 2..Len(output) :
                        output[i].parent_artifact_id = output[i - 1].id
                  /\ \/ output[1].parent_artifact_id = NoId
                     \/ output[1].parent_artifact_id \notin Keys(artifacts))

C15_Witness ==
    /\ Returned
    /\ Len(output) = 2
    /\ output[1].parent_artifact_id # NoId
    /\ output[1].parent_artifact_id \notin Keys(artifacts)

(***************************************************************************)
(* utils/diff.py: compute_run_diff.                                        *)
(***************************************************************************)
\* {c.id: c for c in claims}, which keeps the claims that have no id.
claims_map_keeping_none(cs) ==
    LET ids == {cs[i].id : i \in 1..Len(cs)}
    IN [k \in ids |->
          cs[CHOOSE i \in 1..Len(cs) :
                /\ cs[i].id = k
                /\ \A j \in (i + 1)..Len(cs) : cs[j].id # k]]

\* {c.id: c for c in claims if c.id}: of several claims with one id the
\* last stays.
claims_map(cs) ==
    LET ids == {cs[i].id : i \in {j \in 1..Len(cs) : IdTruthy(cs[j].id)}}
    IN [k \in ids |->
          cs[CHOOSE i \in 1..Len(cs) :
                /\ cs[i].id = k
                /\ \A j \in (i + 1)..Len(cs) : cs[j].id # k]]

\* A map in which of several claims with one id the first stays.
claims_map_first(cs) ==
    LET ids == {cs[i].id : i \in {j \in 1..Len(cs) : IdTruthy(cs[j].id)}}
    IN [k \in ids |->
          cs[CHOOSE i \in 1..Len(cs) :
                /\ cs[i].id = k
                /\ \A j \in 1..(i - 1) : cs[j].id # k]]

\* list(S) of a set, or a loop over it: its elements once each, in an order
\* the language leaves open.
list(S) ==
    {s \in [1..Cardinality(S) -> S] : \A x \in S : \E i \in DOMAIN s : s[i] = x}

\* A test that also looks at the metadata.
claim_modified_with_metadata(claim_a, claim_b) ==
    \/ claim_a.statement # claim_b.statement
    \/ claim_a.confidence # claim_b.confidence
    \/ run_fingerprint(claim_a) # run_fingerprint(claim_b)
    \/ claim_a.metadata # claim_b.metadata

\* The test that makes a common id a modified claim.
claim_modified(claim_a, claim_b) ==
    \/ claim_a.statement # claim_b.statement
    \/ claim_a.confidence # claim_b.confidence
    \/ run_fingerprint(claim_a) # run_fingerprint(claim_b)

\* An entry whose delta is taken from the second run to the first.
modified_entry_delta_reversed(claim_id, claim_a, claim_b) ==
    [id |-> claim_id,
     statement_changed |-> claim_a.statement # claim_b.statement,
     confidence_changed |-> claim_a.confidence # claim_b.confidence,
     confidence_delta |-> claim_a.confidence - claim_b.confidence,
     fingerprint_changed |->
         run_fingerprint(claim_a) # run_fingerprint(claim_b)]

modified_entry(claim_id, claim_a, claim_b) ==
    [id |-> claim_id,
     statement_changed |-> claim_a.statement # claim_b.statement,
     confidence_changed |-> claim_a.confidence # claim_b.confidence,
     confidence_delta |-> claim_b.confidence - claim_a.confidence,
     fingerprint_changed |->
         run_fingerprint(claim_a) # run_fingerprint(claim_b)]

\* The body of compute_run_diff after the two maps are built: the results it
\* can return, one for each order in which the sets are listed.
run_diff(claims_a_map, claims_b_map) ==
    LET ids_a == DOMAIN claims_a_map
        ids_b == DOMAIN claims_b_map
        added_ids == ids_b \ ids_a
        removed_ids == ids_a \ ids_b
        common_ids == ids_a \cap ids_b
        modified_ids == {k \in common_ids :
                            claim_modified(claims_a_map[k], claims_b_map[k])}
    IN {[added_claims |-> added,
         removed_claims |-> removed,
         modified_claims |->
             [i \in 1..Len(modified) |->
                 modified_entry(modified[i], claims_a_map[modified[i]],
                                claims_b_map[modified[i]])],
         total_changes |-> Cardinality(added_ids) + Cardinality(removed_ids)
                           + Len(modified)] :
           added \in list(added_ids), removed \in list(removed_ids),
           modified \in list(modified_ids)}

\* A diff that keeps the first claim of an id in the second run.
compute_run_diff_first_of_b(claims_a, claims_b) ==
    run_diff(claims_map(claims_a), claims_map_first(claims_b))

compute_run_diff(claims_a, claims_b) ==
    run_diff(claims_map(claims_a), claims_map(claims_b))

\* The runs a caller compares: up to MaxRun claims each, ids absent or
\* shared, differing in statement, confidence, or in the evidence alone.
DiffIds == {NoId, 1, 2}
DiffClaims ==
    {[Claim(st, cf, <<1>>, <<>>, EmptyDict, <<None, None, None, None>>, 0).value
         EXCEPT !.id = i] :
        st \in {"s", "t"}, cf \in {5, 8}, i \in DiffIds}
    \cup
    {[Claim("s", 5, <<2>>, <<>>, EmptyDict, <<None, None, None, None>>, 0).value
         EXCEPT !.id = i] : i \in DiffIds}
Runs == SeqsUpTo(DiffClaims, MaxRun)

InitRunDiff ==
    /\ evidence = <<>>
    /\ claims = <<>>
    /\ artifacts = <<>>
    /\ now = 0
    /\ call = [op |-> "none"]
    /\ result = [error |-> "", id |-> NoId]
    /\ input \in Runs \X Runs
    /\ output = <<>>
    /\ plugins = <<>>

ComputeRunDiff ==
    /\ output = <<>>
    /\ output' \in compute_run_diff(input[1], input[2])
    /\ UNCHANGED <<evidence, claims, artifacts, now, call, result, input, plugins>>

NextRunDiff == ComputeRunDiff

SpecRunDiff == InitRunDiff /\ [][NextRunDiff]_vars

\* The ids that the claims of a run carry.
IdsOf(cs) == {cs[i].id : i \in 1..Len(cs)} \ {NoId}

\* The claim that stands for id k in a run: the last that carries it.
LastWith(cs, k) ==
    cs[CHOOSE i \in 1..Len(cs) :
          cs[i].id = k /\ \A j \in 1..Len(cs) : cs[j].id = k => j <= i]

NoRepeats(s) == \A i, j \in 1..Len(s) : s[i] = s[j] => i = j

\* C17: for any sequence of claims X (claims without an id and claims that
\* share an id included), compute_run_diff(X, X) yields added_claims = [],
\* removed_claims = [], modified_claims = [] and total_changes = 0.
C17_DiffOfRunWithItself ==
    (output # <<>> /\ input[1] = input[2]) =>
        /\ output.added_claims = <<>>
        /\ output.removed_claims = <<>>
        /\ output.modified_claims = <<>>
        /\ output.total_changes = 0

C17_Witness ==
    /\ output # <<>>
    /\ input[1] = input[2]
    /\ Len(input[1]) = 2
    /\ input[1][1].id = input[1][2].id
    /\ input[1][1].id # NoId
    /\ input[1][1].confidence # input[1][2].confidence

\* C18: compute_run_diff(before, after) reports as added_claims exactly the
\* ids carried by a claim of after and by none of before, as removed_claims
\* exactly the ids of before that after lacks (claims without an id count
\* on neither side), the two are disjoint, and total_changes is
\* |added_claims| + |removed_claims| + |modified_claims|.
C18_AddedRemovedAndTotal ==
    output # <<>> =>
        /\ Range(output.added_claims) = IdsOf(input[2]) \ IdsOf(input[1])
        /\ Range(output.removed_claims) = IdsOf(input[1]) \ IdsOf(input[2])
        /\ NoRepeats(output.added_claims)
        /\ NoRepeats(output.removed_claims)
        /\ Range(output.added_claims) \cap Range(output.removed_claims) = {}
        /\ output.total_changes = Len(output.added_claims)
                                    + Len(output.removed_claims)
                                    + Len(output.modified_claims)

C18_Witness ==
    /\ output # <<>>
    /\ Len(output.added_claims) = 1
    /\ Len(output.removed_claims) = 1
    /\ \E i \in 1..Len(input[1]) : input[1][i].id = NoId
    /\ \E i \in 1..Len(input[2]) : input[2][i].id = NoId
    /\ output.total_changes = 2

\* C19: an id present in both runs appears in modified_claims, once, if and
\* only if its two claims differ in statement, confidence or run_fingerprint,
\* and no other id appears; its entry has confidence_delta =
\* after.confidence - before.confidence, statement_changed and
\* confidence_changed true exactly when that field differs, and a
\* confidence_delta of zero only when the confidence is unchanged.
C19_ModifiedEntries ==
    output # <<>> =>
        LET modified == output.modified_claims
            common == IdsOf(input[1]) \cap IdsOf(input[2])
        IN /\ \A i \in 1..Len(modified) : modified[i].id \in common
           /\ \A k \in common :
                 LET a == LastWith(input[1], k)
                     b == LastWith(input[2], k)
                     entries == {i \in 1..Len(modified) : modified[i].id = k}
                     differ == \/ a.statement # b.statement
                               \/ a.confidence # b.confidence
                               \/ run_fingerprint(a) # run_fingerprint(b)
                 IN /\ Cardinality(entries) = (IF differ THEN 1 ELSE 0)
                    /\ \A i \in entries :
                          /\ modified[i].confidence_delta
                                = b.confidence - a.confidence
                          /\ modified[i].statement_changed
                                = (a.statement # b.statement)
                          /\ modified[i].confidence_changed
                                = (a.confidence # b.confidence)
                          /\ modified[i].confidence_delta = 0
                                => a.confidence = b.confidence

C19_Witness ==
    /\ output # <<>>
    /\ Len(output.modified_claims) = 2
    /\ output.modified_claims[1].confidence_delta < 0
    /\ output.modified_claims[1].confidence_changed
    /\ ~output.modified_claims[1].statement_changed
    /\ output.modified_claims[2].confidence_delta = 0
    /\ ~output.modified_claims[2].statement_changed

(***************************************************************************)
(* utils/alerts.py: Alert and AlertGenerator.generate_alerts.              *)
(***************************************************************************)
\* None for an Optional[List[Claim]] argument.
NoRun == <<NoRecord>>

\* bool(claims) for an Optional[List[Claim]]: None and [] are falsy.
RunTruthy(cs) == cs # NoRun /\ cs # <<>>

\* Alert(alert_type, severity, message, details): the timestamp is not
\* passed, so it is the clock's.
Alert(alert_type, severity, message, details) ==
    [alert_type |-> alert_type, severity |-> severity, message |-> message,
     details |-> details, timestamp |-> now]

AlertGenerator(confidence_drop_threshold, confidence_high_threshold) ==
    [confidence_drop_threshold |-> confidence_drop_threshold,
     confidence_high_threshold |-> confidence_high_threshold]

\* The lists of a list of lists, joined.
RECURSIVE Flatten(_)
Flatten(ss) == IF ss = <<>> THEN <<>> ELSE Head(ss) \o Flatten(Tail(ss))

\* A test that leaves out the threshold itself.
is_high_confidence_strict(self, claim) ==
    claim.confidence > self.confidence_high_threshold

\* claim.confidence >= self.confidence_high_threshold
is_high_confidence(self, claim) ==
    claim.confidence >= self.confidence_high_threshold

\* The first loop of generate_alerts.
high_confidence_alerts(self, cs) ==
    Flatten([i \in 1..Len(cs) |->
        IF is_high_confidence(self, cs[i])
        THEN <<Alert("high_confidence_claim", "high",
                     <<"High-confidence claim detected: ", cs[i].statement>>,
                     [claim_id |-> cs[i].id,
                      confidence |-> cs[i].confidence,
                      statement |-> cs[i].statement])>>
        ELSE <<>>])

total_evidence(claim) ==
    Len(claim.supporting_evidence_ids) + Len(claim.counter_evidence_ids)

\* The second loop.
well_supported_alerts(cs) ==
    Flatten([i \in 1..Len(cs) |->
        IF total_evidence(cs[i]) >= 5
        THEN <<Alert("well_supported_claim", "medium",
                     <<"Claim with substantial evidence: ", cs[i].statement>>,
                     [claim_id |-> cs[i].id,
                      total_evidence |-> total_evidence(cs[i]),
                      supporting_count |-> Len(cs[i].supporting_evidence_ids),
                      counter_count |-> Len(cs[i].counter_evidence_ids)])>>
        ELSE <<>>])

\* Confidences and thresholds are floats, written here in tenths: k stands
\* for the double nearest to k/10.  The difference of two such doubles is a
\* double that need not be the one nearest to the difference of the tenths:
\* the pairs <<x, y>> of tenths in 0..10 whose float difference x - y lies
\* above, and below, the double nearest to (x - y)/10.
SubRoundsAbove ==
    {<<1, 3>>, <<2, 3>>, <<2, 6>>, <<2, 7>>, <<3, 7>>, <<4, 1>>, <<4, 3>>,
     <<4, 5>>, <<4, 6>>, <<4, 7>>, <<5, 6>>, <<5, 7>>, <<6, 7>>, <<8, 1>>,
     <<8, 2>>, <<8, 5>>, <<8, 6>>, <<8, 7>>, <<8, 9>>, <<8, 10>>, <<9, 3>>,
     <<9, 6>>, <<9, 7>>, <<9, 10>>, <<10, 7>>}

SubRoundsBelow ==
    {<<1, 4>>, <<1, 8>>, <<2, 8>>, <<3, 1>>, <<3, 2>>, <<3, 4>>, <<3, 9>>,
     <<5, 4>>, <<5, 8>>, <<6, 2>>, <<6, 4>>, <<6, 5>>, <<6, 8>>, <<6, 9>>,
     <<7, 2>>, <<7, 3>>, <<7, 4>>, <<7, 5>>, <<7, 6>>, <<7, 8>>, <<7, 9>>,
     <<7, 10>>, <<9, 8>>, <<10, 8>>, <<10, 9>>}

\* x - y on floats: <<tenths, side>>, the double nearest to tenths/10
\* (side 0), the next doubles above it (side 1) or below it (side -1).
float_sub(x, y) ==
    <<x - y, IF <<x, y>> \in SubRoundsAbove THEN 1
             ELSE IF <<x, y>> \in SubRoundsBelow THEN -1 ELSE 0>>

\* The float a literal or an attribute in tenths holds.
Float(k) == <<k, 0>>

\* -x on floats
float_neg(x) == <<-x[1], -x[2]>>

\* x <= y on floats
FloatLe(x, y) == x = y \/ TupleLess(x, y)

\* A loop body that tests for the increase before the drop.
confidence_change_alerts_increase_first(self, claim, prev_claim) ==
    LET confidence_change == float_sub(claim.confidence, prev_claim.confidence)
        threshold == Float(self.confidence_drop_threshold)
        details == [claim_id |-> claim.id,
                    previous_confidence |-> prev_claim.confidence,
                    current_confidence |-> claim.confidence,
                    change |-> confidence_change]
    IN IF FloatLe(threshold, confidence_change)
       THEN <<Alert("confidence_increase", "medium",
                    <<"Significant confidence increase in claim: ",
                      claim.statement>>, details)>>
       ELSE IF FloatLe(confidence_change, float_neg(threshold))
       THEN <<Alert("confidence_drop", "high",
                    <<"Significant confidence drop in claim: ",
                      claim.statement>>, details)>>
       ELSE <<>>

\* The body of the third loop for one claim whose id the previous map has.
confidence_change_alerts(self, claim, prev_claim) ==
    LET confidence_change == float_sub(claim.confidence, prev_claim.confidence)
        threshold == Float(self.confidence_drop_threshold)
        details == [claim_id |-> claim.id,
                    previous_confidence |-> prev_claim.confidence,
                    current_confidence |-> claim.confidence,
                    change |-> confidence_change]
    IN IF FloatLe(confidence_change, float_neg(threshold))
       THEN <<Alert("confidence_drop", "high",
                    <<"Significant confidence drop in claim: ",
                      claim.statement>>, details)>>
       ELSE IF FloatLe(threshold, confidence_change)
       THEN <<Alert("confidence_increase", "medium",
                    <<"Significant confidence increase in claim: ",
                      claim.statement>>, details)>>
       ELSE <<>>

\* The comparison with the previous claims.
comparison_alerts(self, cs, previous_claims) ==
    IF RunTruthy(previous_claims)
    THEN LET prev_claims_map == claims_map(previous_claims)
         IN Flatten([i \in 1..Len(cs) |->
                IF cs[i].id \in DOMAIN prev_claims_map
                THEN confidence_change_alerts(self, cs[i],
                                              prev_claims_map[cs[i].id])
                ELSE <<>>])
    ELSE <<>>

\* A generator that appends the comparison's alerts before the others.
generate_alerts_comparison_first(self, cs, previous_claims) ==
    comparison_alerts(self, cs, previous_claims)
        \o high_confidence_alerts(self, cs)
        \o well_supported_alerts(cs)

generate_alerts(self, cs, previous_claims) ==
    high_confidence_alerts(self, cs)
        \o well_supported_alerts(cs)
        \o comparison_alerts(self, cs, previous_claims)

\* What the callers of the generator supply: claims at, below and above the
\* thresholds, with fewer than five, five and more than five references.
AlertEvidence ==
    {<<<<1>>, <<>>>>, <<<<1, 1, 1, 1>>, <<>>>>, <<<<1, 1, 1>>, <<1, 1>>>>,
     <<<<1, 1, 1>>, <<1, 1, 1>>>>}
AlertClaims ==
    {[Claim("s", cf, ev[1], ev[2], EmptyDict,
            <<None, None, None, None>>, 0).value EXCEPT !.id = i] :
        cf \in {5, 8, 9, 10}, ev \in AlertEvidence, i \in {NoId, 1, 2}}
PreviousClaims ==
    {[Claim("s", cf, <<1>>, <<>>, EmptyDict,
            <<None, None, None, None>>, 0).value EXCEPT !.id = i] :
        cf \in {3, 7, 10}, i \in {NoId, 1, 2}}
Generators ==
    {AlertGenerator(2, 9), AlertGenerator(3, 10), AlertGenerator(0, 9)}

InitAlerts ==
    /\ evidence = <<>>
    /\ claims = <<>>
    /\ artifacts = <<>>
    /\ now = 0
    /\ call = [op |-> "none"]
    /\ result = [error |-> "", id |-> NoId]
    /\ input \in [self : Generators,
                   claims : SeqsUpTo(AlertClaims, MaxRun),
                   previous_claims : {NoRun} \cup SeqsUpTo(PreviousClaims, 1)]
    /\ output = <<>>
    /\ plugins = <<>>

GenerateAlerts ==
    /\ call.op = "none"
    /\ call' = [op |-> "generate_alerts"]
    /\ output' = generate_alerts(input.self, input.claims,
                                 input.previous_claims)
    /\ UNCHANGED <<evidence, claims, artifacts, now, result, input, plugins>>

NextAlerts == GenerateAlerts

SpecAlerts == InitAlerts /\ [][NextAlerts]_vars

\* The alerts of one type, in the order they were appended.
AlertsOfType(alerts, alert_type) ==
    SelectSeq(alerts, LAMBDA a : a.alert_type = alert_type)

\* C20: generate_alerts evaluates the per-claim rules independently: each
\* claim of the current list yields exactly one high_confidence_claim alert
\* (severity high) if and only if its confidence is at least
\* confidence_high_threshold, the threshold included, and exactly one
\* well_supported_claim alert (severity medium) if and only if
\* len(supporting) + len(counter) >= 5, so one claim may yield both.
C20_PerClaimAlerts ==
    call.op = "generate_alerts" =>
        LET high == AlertsOfType(output, "high_confidence_claim")
            confident ==
                SelectSeq(input.claims,
                    LAMBDA c : c.confidence
                                 >= input.self.confidence_high_threshold)
            well == AlertsOfType(output, "well_supported_claim")
            supported ==
                SelectSeq(input.claims,
                    LAMBDA c : Len(c.supporting_evidence_ids)
                                 + Len(c.counter_evidence_ids) >= 5)
        IN /\ Len(high) = Len(confident)
           /\ \A i \in 1..Len(high) :
                 /\ high[i].severity = "high"
                 /\ high[i].details.claim_id = confident[i].id
                 /\ high[i].details.confidence = confident[i].confidence
           /\ Len(well) = Len(supported)
           /\ \A i \in 1..Len(well) :
                 /\ well[i].severity = "medium"
                 /\ well[i].details.claim_id = supported[i].id
                 /\ well[i].details.total_evidence
                       = Len(supported[i].supporting_evidence_ids)
                         + Len(supported[i].counter_evidence_ids)

C20_Witness ==
    /\ call.op = "generate_alerts"
    /\ Len(input.claims) = 2
    /\ input.claims[1].confidence = input.self.confidence_high_threshold
    /\ total_evidence(input.claims[1]) = 5
    /\ input.claims[2].confidence < input.self.confidence_high_threshold
    /\ total_evidence(input.claims[2]) = 4
    /\ Len(AlertsOfType(output, "high_confidence_claim")) = 1
    /\ Len(AlertsOfType(output, "well_supported_claim")) = 1

\* The alerts of the comparison with the previous claims.
ChangeAlerts(alerts) ==
    SelectSeq(alerts, LAMBDA a : a.alert_type \in {"confidence_drop",
                                                    "confidence_increase"})

\* What C21 expects of one current claim: the type, severity, claim and
\* change of its alert, if any.
ExpectedChange(self, c, previous) ==
    IF c.id \notin IdsOf(previous) THEN <<>>
    ELSE LET p == LastWith(previous, c.id)
             delta == float_sub(c.confidence, p.confidence)
             threshold == Float(self.confidence_drop_threshold)
         IN IF FloatLe(delta, float_neg(threshold))
            THEN <<[alert_type |-> "confidence_drop", severity |-> "high",
                    claim_id |-> c.id, change |-> delta]>>
            ELSE IF FloatLe(threshold, delta)
            THEN <<[alert_type |-> "confidence_increase",
                    severity |-> "medium",
                    claim_id |-> c.id, change |-> delta]>>
            ELSE <<>>

\* C21: when previous claims are given, each current claim whose id is also
\* in the previous set, with delta = current.confidence -
\* previous.confidence, yields a confidence_drop alert (severity high,
\* details.change = delta) iff delta <= -confidence_drop_threshold,
\* otherwise a confidence_increase alert (severity medium) iff delta >=
\* confidence_drop_threshold, never both, and a claim whose id is in only
\* one set yields neither.
C21_ConfidenceChangeAlerts ==
    (call.op = "generate_alerts" /\ input.previous_claims # NoRun) =>
        LET changes == ChangeAlerts(output)
            expected ==
                Flatten([i \in 1..Len(input.claims) |->
                    ExpectedChange(input.self, input.claims[i],
                                   input.previous_claims)])
        IN /\ Len(changes) = Len(expected)
           /\ \A i \in 1..Len(changes) :
                 /\ changes[i].alert_type = expected[i].alert_type
                 /\ changes[i].severity = expected[i].severity
                 /\ changes[i].details.claim_id = expected[i].claim_id
                 /\ changes[i].details.change = expected[i].change

C21_Witness ==
    /\ call.op = "generate_alerts"
    /\ input.previous_claims # NoRun
    /\ input.self.confidence_drop_threshold = 2
    /\ Len(input.claims) = 2
    /\ input.claims[1].id \in IdsOf(input.previous_claims)
    /\ input.claims[2].id \notin IdsOf(input.previous_claims)
    /\ Len(ChangeAlerts(output)) = 1
    /\ ChangeAlerts(output)[1].alert_type = "confidence_increase"
    /\ ChangeAlerts(output)[1].details.change = <<2, 0>>

(***************************************************************************)
(* ClaimStore.store_claim running in one thread, one statement per step,   *)
(* while other threads call store_evidence.  input holds the arguments and *)
(* locals of the running call (pc its position, outcome what it raised or  *)
(* returned); output collects what the call would have raised or returned  *)
(* had it run whole at each of its steps.                                  *)
(***************************************************************************)
Pending == [error |-> "pending"]

\* What store_claim raises or returns when it runs whole in the present
\* state: the error and the id it names, or the claim before it gets its id.
store_claim_whole(confidence, supporting, counter) ==
    LET all_evidence_ids == supporting \o OrEmptyList(counter)
        missing == MissingEvidence(supporting, counter)
        claim == Claim("s", confidence, supporting, OrEmptyList(counter),
                       OrEmptyDict(NoDict), <<None, None, None, None>>, now)
    IN IF missing # {}
       THEN [error |-> "Evidence not found",
             evidence_id |-> all_evidence_ids[CHOOSE i \in missing : TRUE]]
       ELSE IF claim.error # "" THEN [error |-> claim.error]
       ELSE [error |-> "", claim |-> claim.value]

Running == input # <<>> /\ input.pc # "done"

\* The call is made: all_evidence_ids is built.
store_claim_begin(confidence, supporting, counter) ==
    /\ ~Running
    /\ Stored < MaxRecords
    /\ input' = [confidence |-> confidence, supporting |-> supporting,
                 counter |-> counter,
                 all_evidence_ids |-> supporting \o OrEmptyList(counter),
                 i |-> 1, claim |-> NoRecord, pc |-> "check",
                 outcome |-> Pending]
    /\ output' = {store_claim_whole(confidence, supporting, counter)}
    /\ UNCHANGED <<evidence, claims, artifacts, now, call, result, plugins>>

\* What the running call would do if it ran whole now, added to the rest.
Sampled ==
    output \cup {store_claim_whole(input.confidence, input.supporting,
                                    input.counter)}

\* An iteration that takes every id for stored.
store_claim_check_nothing ==
    /\ Running /\ input.pc = "check"
    /\ IF input.i > Len(input.all_evidence_ids)
       THEN input' = [input EXCEPT !.pc = "construct"]
       ELSE input' = [input EXCEPT !.i = input.i + 1]
    /\ output' = Sampled
    /\ UNCHANGED <<evidence, claims, artifacts, now, call, result, plugins>>

\* One iteration of `for evidence_id in all_evidence_ids`, or its end.
store_claim_check ==
    /\ Running /\ input.pc = "check"
    /\ IF input.i > Len(input.all_evidence_ids)
       THEN input' = [input EXCEPT !.pc = "construct"]
       ELSE LET evidence_id == input.all_evidence_ids[input.i]
            IN IF get_evidence(evidence_id) = NoRecord
               THEN input' = [input EXCEPT
                                !.pc = "done",
                                !.outcome = [error |-> "Evidence not found",
                                             evidence_id |-> evidence_id]]
               ELSE input' = [input EXCEPT !.i = input.i + 1]
    /\ output' = Sampled
    /\ UNCHANGED <<evidence, claims, artifacts, now, call, result, plugins>>

\* claim = Claim(..., timestamp=datetime.utcnow())
store_claim_construct ==
    /\ Running /\ input.pc = "construct"
    /\ LET claim == Claim("s", input.confidence, input.supporting,
                          OrEmptyList(input.counter), OrEmptyDict(NoDict),
                          <<None, None, None, None>>, now)
       IN IF claim.error # ""
          THEN input' = [input EXCEPT !.pc = "done",
                                      !.outcome = [error |-> claim.error]]
          ELSE input' = [input EXCEPT !.pc = "insert", !.claim = claim.value]
    /\ output' = Sampled
    /\ UNCHANGED <<evidence, claims, artifacts, now, call, result, plugins>>

\* claim.id = str(uuid.uuid4()); self._claims[claim_id] = claim; return claim
store_claim_insert ==
    /\ Running /\ input.pc = "insert"
    /\ \E claim_id \in uuid4(UUIDs, claims) :
          claims' = DictSet(claims, claim_id,
                            [input.claim EXCEPT !.id = claim_id])
    /\ input' = [input EXCEPT
                    !.pc = "done",
                    !.outcome = [error |-> "", claim |-> input.claim]]
    /\ output' = Sampled
    /\ UNCHANGED <<evidence, artifacts, now, call, result, plugins>>

RaceConfidences == {5, 11}
RaceLists == {<<>>} \cup {<<e>> : e \in UUIDs}

RaceBegin ==
    \E confidence \in RaceConfidences, supporting \in RaceLists,
       counter \in {NoList} \cup RaceLists :
        store_claim_begin(confidence, supporting, counter)

RaceCheck == store_claim_check

RaceConstruct == store_claim_construct

RaceInsert == store_claim_insert

\* store_evidence in another thread: its one access to the shared dict is
\* the insertion.
RaceStoreEvidence ==
    \E prov \in Provenances : store_evidence("a", "manual", NoDict, prov)

NextRace ==
    \/ Tick
    \/ RaceStoreEvidence
    \/ RaceBegin
    \/ RaceCheck
    \/ RaceConstruct
    \/ RaceInsert

SpecRace == Init /\ [][NextRace]_vars

\* C22: under every interleaving of the steps of store_claim (the checks of
\* the ids one by one, construction, insertion) with concurrent
\* store_evidence calls, what the call raises or returns is what it would
\* have raised or returned running whole at some instant between its start
\* and its return, and no claim is inserted that refers to an evidence id
\* absent from the Evidence Store at the moment of insertion.
C22_CheckAtomicUnderInsertions ==
    /\ (input # <<>> /\ input.pc = "done") => input.outcome \in output
    /\ \A i \in 1..Len(claims) :
          \A e \in Range(evidence_refs(claims[i])) : e \in Keys(evidence)

C22_Witness ==
    /\ input # <<>>
    /\ input.pc = "done"
    /\ input.outcome.error = ""
    /\ Len(input.all_evidence_ids) = 2
    /\ Cardinality(output) = 3

(***************************************************************************)
(* Every operation of the Claim Store, against an Evidence Store that      *)
(* other callers fill.                                                     *)
(***************************************************************************)
ClaimOpsStoreEvidence ==
    \E prov \in Provenances : store_evidence("a", "manual", NoDict, prov)

GetClaim ==
    \E claim_id \in {1, MaxRecords + 1} :
        /\ call' = [op |-> "get_claim"]
        /\ input' = [id |-> claim_id]
        /\ output' = <<get_claim(claim_id)>>
        /\ UNCHANGED <<evidence, claims, artifacts, now, result, plugins>>

CountClaims ==
    /\ call' = [op |-> "count_claims"]
    /\ input' = [id |-> NoId]
    /\ output' = <<count_claims>>
    /\ UNCHANGED <<evidence, claims, artifacts, now, result, plugins>>

ClaimOpsListClaims ==
    \E min_confidence \in {NoConfidence, 10}, limit \in {NoLimit, 1} :
        /\ call' = [op |-> "list_claims"]
        /\ input' = [min_confidence |-> min_confidence, since |-> NoTime,
                     limit |-> limit]
        /\ output' = list_claims(min_confidence, NoTime, limit)
        /\ UNCHANGED <<evidence, claims, artifacts, now, result, plugins>>

ClaimOpsGetClaimsByEvidence ==
    \E evidence_id \in {1, MaxRecords + 1} :
        /\ call' = [op |-> "get_claims_by_evidence"]
        /\ input' = [id |-> evidence_id]
        /\ output' = get_claims_by_evidence(evidence_id, claims)
        /\ UNCHANGED <<evidence, claims, artifacts, now, result, plugins>>

NextClaimOps ==
    \/ ClaimOpsStoreEvidence
    \/ StoreClaim
    \/ GetClaim
    \/ ClaimOpsListClaims
    \/ ClaimOpsGetClaimsByEvidence
    \/ CountClaims

SpecClaimOps == Init /\ [][NextClaimOps]_vars

ClaimStoreOps ==
    {"store_claim", "get_claim", "list_claims", "get_claims_by_evidence",
     "count_claims"}

\* C23: no Claim Store operation (store_claim whether it succeeds or fails,
\* get_claim, list_claims, get_claims_by_evidence, count_claims) changes the
\* bound Evidence Store: its identifiers, in their order, and the record
\* under each are the same after the call as before.
C23_ClaimStoreLeavesEvidence ==
    [][(now' = now /\ call'.op \in ClaimStoreOps) => evidence' = evidence]_vars

C23_Witness ==
    /\ call.op = "store_claim"
    /\ result.error = ""
    /\ Len(claims) = 2
    /\ Len(evidence) = 1

(***************************************************************************)
(* plugins/registry.py: PluginRegistry.  _plugins is a dict from the name  *)
(* of a plugin to the plugin, held as the sequence of its values; a plugin *)
(* is its name and the instance it is.                                     *)
(***************************************************************************)
NoPlugin == [name |-> "<None>", instance |-> 0]

PluginNames == {"manual_entry", "api"}
PluginInstances == 1..MaxInstances
Plugins == [name : PluginNames, instance : PluginInstances]

\* self._plugins.keys()
list_plugins == [i \in 1..Len(plugins) |-> plugins[i].name]

Registered == {plugins[i].name : i \in 1..Len(plugins)}

\* self._plugins.get(plugin_name)
get_plugin(plugin_name) ==
    IF plugin_name \in Registered
    THEN plugins[CHOOSE i \in 1..Len(plugins) : plugins[i].name = plugin_name]
    ELSE NoPlugin

\* A register that replaces the plugin held under the name.
register_overwriting(plugin) ==
    /\ call' = [op |-> "register"]
    /\ input' = plugin
    /\ plugins' = IF plugin.name \in Registered
                  THEN [i \in 1..Len(plugins) |->
                           IF plugins[i].name = plugin.name
                           THEN plugin ELSE plugins[i]]
                  ELSE Append(plugins, plugin)
    /\ result' = [error |-> "", id |-> NoId]
    /\ UNCHANGED <<evidence, claims, artifacts, now, output>>

register(plugin) ==
    /\ call' = [op |-> "register"]
    /\ input' = plugin
    /\ IF plugin.name \in Registered
       THEN /\ result' = [error |-> "ValueError", id |-> NoId]
            /\ UNCHANGED plugins
       ELSE /\ plugins' = Append(plugins, plugin)
            /\ result' = [error |-> "", id |-> NoId]
    /\ UNCHANGED <<evidence, claims, artifacts, now, output>>

unregister(plugin_name) ==
    /\ call' = [op |-> "unregister"]
    /\ input' = [name |-> plugin_name]
    /\ plugins' = IF plugin_name \in Registered
                  THEN SelectSeq(plugins, LAMBDA p : p.name # plugin_name)
                  ELSE plugins
    /\ result' = [error |-> "", id |-> NoId]
    /\ UNCHANGED <<evidence, claims, artifacts, now, output>>

Register == \E plugin \in Plugins : register(plugin)

Unregister == \E plugin_name \in PluginNames : unregister(plugin_name)

GetPlugin ==
    \E plugin_name \in PluginNames :
        /\ call' = [op |-> "get_plugin"]
        /\ input' = [name |-> plugin_name]
        /\ output' = <<get_plugin(plugin_name)>>
        /\ UNCHANGED <<evidence, claims, artifacts, now, result, plugins>>

NextRegistry ==
    \/ Register
    \/ Unregister
    \/ GetPlugin

SpecRegistry == Init /\ [][NextRegistry]_vars

\* C24: register rejects a plugin whose name is already registered by
\* raising an error and leaves the registration as it was (get_plugin(name)
\* still returns the first plugin, the registered names are unchanged);
\* a name that is not registered, after unregister(name) included, is
\* accepted; unregister removes the name alone, and unregister of an
\* unknown name changes nothing.
C24_RegistryDuplicateNames ==
    [][/\ call'.op = "register" =>
            IF input'.name \in Registered
            THEN /\ result'.error = "ValueError"
                 /\ plugins' = plugins
            ELSE /\ result'.error = ""
                 /\ plugins' = Append(plugins, input')
       /\ call'.op = "unregister" =>
            /\ result'.error = ""
            /\ input'.name \notin Registered => plugins' = plugins
            /\ plugins' = SelectSeq(plugins, LAMBDA p : p.name # input'.name)
       /\ call'.op = "get_plugin" =>
            /\ plugins' = plugins
            /\ output'[1].name \in Registered \cup {NoPlugin.name}]_vars

C24_Witness ==
    /\ call.op = "register"
    /\ result.error = "ValueError"
    /\ Len(plugins) = 2
    /\ get_plugin(input.name) # input
    /\ plugins[2].name = input.name

\* C25: store_artifact accepts a parent_artifact_id that is not in the
\* store, and get_artifact_lineage(id) returns [] when id is absent and
\* otherwise a list, oldest ancestor first, whose last element is the
\* artifact with the given id, in which each element's parent_artifact_id
\* is the id of the element just before it, and whose first element has no
\* parent or a parent id absent from the store.
C25_LineageShape ==
    /\ [][(now' = now /\ call'.op = "store_artifact") =>
             /\ result'.error = ""
             /\ Len(artifacts') = Len(artifacts) + 1
             /\ SubSeq(artifacts', 1, Len(artifacts)) = artifacts]_vars
    /\ [](Returned =>
            IF input.artifact_id \notin Keys(artifacts)
            THEN output = <<>>
            ELSE /\ output # <<>>
                 /\ output[Len(output)] = get_artifact(input.artifact_id)
                 /\ \A i \in 1..Len(output) : output[i] \in Range(artifacts)
                 /\ \A i \in 1..(Len(output) - 1) :
                       output[i + 1].parent_artifact_id = output[i].id
                 /\ output[1].parent_artifact_id
                       \notin Keys(artifacts) \ {NoId})

C25_Witness ==
    /\ Returned
    /\ Len(output) = 3
    /\ output[3].id = input.artifact_id
    /\ output[1].parent_artifact_id = MaxRecords + 1

(***************************************************************************)
(* The list calls, statement by statement, with store calls of other       *)
(* threads between their statements.  input holds the running call: its    *)
(* arguments, its local results and the statement it is at; began is the   *)
(* store when the call's first statement ran and whole the result of the   *)
(* whole call at that moment.  One list call is observed in a behaviour.   *)
(***************************************************************************)
Listing == input # <<>> /\ input.pc # "done"

Listed == input # <<>> /\ input.pc = "done"

\* results = list(self._evidence.values())
list_evidence_snapshot(source, since, limit) ==
    /\ input = <<>>
    /\ call' = [op |-> "list_evidence"]
    /\ input' = [op |-> "list_evidence", pc |-> "filter", source |-> source,
                 since |-> since, limit |-> limit, results |-> evidence,
                 began |-> evidence,
                 whole |-> list_evidence(source, since, limit)]
    /\ output' = <<>>
    /\ UNCHANGED <<evidence, claims, artifacts, now, result, plugins>>

\* Filters that read the store again instead of the local results.
list_evidence_filter_rereading ==
    /\ Listing
    /\ input.op = "list_evidence"
    /\ input.pc = "filter"
    /\ LET by_source == IF StrTruthy(input.source)
                        THEN SelectSeq(evidence,
                                 LAMBDA e : e.source = input.source)
                        ELSE evidence
           by_since == IF TimeTruthy(input.since)
                       THEN SelectSeq(by_source,
                                LAMBDA e : e.timestamp >= input.since)
                       ELSE by_source
       IN input' = [input EXCEPT !.results = by_since, !.pc = "sort"]
    /\ UNCHANGED <<evidence, claims, artifacts, now, call, result, output, plugins>>

\* if source: ...; if since: ...
list_evidence_filter ==
    /\ Listing
    /\ input.op = "list_evidence"
    /\ input.pc = "filter"
    /\ LET by_source == IF StrTruthy(input.source)
                        THEN SelectSeq(input.results,
                                 LAMBDA e : e.source = input.source)
                        ELSE input.results
           by_since == IF TimeTruthy(input.since)
                       THEN SelectSeq(by_source,
                                LAMBDA e : e.timestamp >= input.since)
                       ELSE by_source
       IN input' = [input EXCEPT !.results = by_since, !.pc = "sort"]
    /\ UNCHANGED <<evidence, claims, artifacts, now, call, result, output, plugins>>

\* results = list(self._claims.values())
list_claims_snapshot(min_confidence, since, limit) ==
    /\ input = <<>>
    /\ call' = [op |-> "list_claims"]
    /\ input' = [op |-> "list_claims", pc |-> "filter",
                 min_confidence |-> min_confidence, since |-> since,
                 limit |-> limit, results |-> claims, began |-> claims,
                 whole |-> list_claims(min_confidence, since, limit)]
    /\ output' = <<>>
    /\ UNCHANGED <<evidence, claims, artifacts, now, result, plugins>>

\* if min_confidence is not None: ...; if since: ...
list_claims_filter ==
    /\ Listing
    /\ input.op = "list_claims"
    /\ input.pc = "filter"
    /\ LET by_confidence == IF input.min_confidence # NoConfidence
                            THEN SelectSeq(input.results,
                                     LAMBDA c :
                                         c.confidence >= input.min_confidence)
                            ELSE input.results
           by_since == IF TimeTruthy(input.since)
                       THEN SelectSeq(by_confidence,
                                LAMBDA c : c.timestamp >= input.since)
                       ELSE by_confidence
       IN input' = [input EXCEPT !.results = by_since, !.pc = "sort"]
    /\ UNCHANGED <<evidence, claims, artifacts, now, call, result, output, plugins>>

\* results = list(self._artifacts.values())
list_artifacts_snapshot(artifact_type, parent, since, limit) ==
    /\ input = <<>>
    /\ call' = [op |-> "list_artifacts"]
    /\ input' = [op |-> "list_artifacts", pc |-> "filter",
                 artifact_type |-> artifact_type, parent |-> parent,
                 since |-> since, limit |-> limit, results |-> artifacts,
                 began |-> artifacts,
                 whole |-> list_artifacts(artifact_type, parent, since, limit)]
    /\ output' = <<>>
    /\ UNCHANGED <<evidence, claims, artifacts, now, result, plugins>>

\* if artifact_type: ...; if parent_artifact_id is not None: ...; if since: ...
list_artifacts_filter ==
    /\ Listing
    /\ input.op = "list_artifacts"
    /\ input.pc = "filter"
    /\ LET by_type == IF StrTruthy(input.artifact_type)
                      THEN SelectSeq(input.results,
                               LAMBDA a :
                                   a.artifact_type = input.artifact_type)
                      ELSE input.results
           by_parent == IF input.parent # NoId
                        THEN SelectSeq(by_type,
                                 LAMBDA a :
                                     a.parent_artifact_id = input.parent)
                        ELSE by_type
           by_since == IF TimeTruthy(input.since)
                       THEN SelectSeq(by_parent,
                                LAMBDA a : a.timestamp >= input.since)
                       ELSE by_parent
       IN input' = [input EXCEPT !.results = by_since, !.pc = "sort"]
    /\ UNCHANGED <<evidence, claims, artifacts, now, call, result, output, plugins>>

\* results.sort(key=..., reverse=True), with the key of the call's store
list_sort ==
    /\ Listing
    /\ input.pc = "sort"
    /\ input' = [input EXCEPT
                    !.results = IF input.op = "list_claims"
                                THEN SortByConfidence(input.results)
                                ELSE SortByTimestamp(input.results),
                    !.pc = "limit"]
    /\ UNCHANGED <<evidence, claims, artifacts, now, call, result, output, plugins>>

\* if limit: results = results[:limit]; return results
list_return ==
    /\ Listing
    /\ input.pc = "limit"
    /\ output' = IF IntTruthy(input.limit)
                 THEN SliceTo(input.results, input.limit)
                 ELSE input.results
    /\ input' = [input EXCEPT !.pc = "done"]
    /\ UNCHANGED <<evidence, claims, artifacts, now, call, result, plugins>>

\* What the callers of the interleaved list calls supply.
SnapshotSources == {NoStr, "manual"}
SnapshotConfidences == {NoConfidence, 10}
SnapshotLimits == {NoLimit, 1}

SnapshotStoreEvidence ==
    /\ Len(evidence) < MaxReadRecords
    /\ Stored < MaxRecords
    /\ \E source \in ReadSources, prov \in Provenances :
           store_evidence("a", source, NoDict, prov)

SnapshotStoreClaim ==
    /\ Len(claims) < MaxReadRecords
    /\ Stored < MaxRecords
    /\ \E confidence \in ClaimReadConfidences, supporting \in StoredLists,
          prov \in Provenances :
           /\ supporting # <<>>
           /\ store_claim("s", confidence, supporting, <<>>, NoDict, prov)

SnapshotStoreArtifact ==
    /\ Len(artifacts) < MaxReadRecords
    /\ Stored < MaxRecords
    /\ \E artifact_type \in ReadTypes, prov \in Provenances :
           store_artifact(artifact_type, "a", NoId, NoDict, prov)

SnapshotListEvidence ==
    \E source \in SnapshotSources, since \in SinceFilters,
       limit \in SnapshotLimits :
        list_evidence_snapshot(source, since, limit)

SnapshotListClaims ==
    \E min_confidence \in SnapshotConfidences, since \in SinceFilters,
       limit \in SnapshotLimits :
        list_claims_snapshot(min_confidence, since, limit)

SnapshotListArtifacts ==
    \E artifact_type \in TypeFilters, since \in SinceFilters,
       limit \in SnapshotLimits :
        list_artifacts_snapshot(artifact_type, NoId, since, limit)

NextSnapshot ==
    \/ Tick
    \/ SnapshotStoreEvidence
    \/ SnapshotStoreClaim
    \/ SnapshotStoreArtifact
    \/ SnapshotListEvidence
    \/ SnapshotListClaims
    \/ SnapshotListArtifacts
    \/ list_evidence_filter
    \/ list_claims_filter
    \/ list_artifacts_filter
    \/ list_sort
    \/ list_return

SpecSnapshot == Init /\ [][NextSnapshot]_vars

\* The store a list call reads.
StoreOf(op) ==
    IF op = "list_evidence" THEN evidence
    ELSE IF op = "list_claims" THEN claims
    ELSE artifacts

\* C26: a list call filters, sorts and truncates a snapshot of the store
\* taken when the call begins: what it returns is what the whole call
\* returns on the store of that moment, every returned record was in the
\* store then, and a record inserted by a concurrent store call after the
\* call began never appears in its result.
C26_ListsReadASnapshot ==
    Listed =>
        /\ output = input.whole
        /\ \A i \in 1..Len(output) : output[i] \in Range(input.began)
        /\ \A r \in Range(StoreOf(input.op)) \ Range(input.began) :
               r \notin Range(output)

C26_Witness ==
    /\ Listed
    /\ output # <<>>
    /\ Range(StoreOf(input.op)) \ Range(input.began) # {}
    /\ \E r \in Range(StoreOf(input.op)) \ Range(input.began) :
           /\ r.timestamp >= input.since
           /\ input.op = "list_evidence" => input.source \in {NoStr, r.source}
           /\ input.op = "list_claims" =>
                  r.confidence >= input.min_confidence
           /\ input.op = "list_artifacts" =>
                  input.artifact_type \in {NoStr, r.artifact_type}
    /\ input.limit = NoLimit

(***************************************************************************)
(* utils/diff.py: compute_artifact_diff                                    *)
(***************************************************************************)
Artifact_fingerprint(a) ==
    sha256([sha256 |-> Artifact_sha256(a),
            artifact_type |-> a.artifact_type,
            parent_id |-> a.parent_artifact_id,
            timestamp |-> isoformat(a.timestamp),
            tool |-> Label(a.tool_name, a.tool_version),
            model |-> Label(a.model_name, a.model_version)])

\* The contents a caller compares, and what json.loads makes of each: a
\* dict (a set of <<key, value>> pairs), another JSON value, or a
\* JSONDecodeError.
DiffTexts ==
    {"Same content", "Different content", "{}", "{\"a\": 1}", "{\"a\":1}",
     "{\"a\": 2}", "{\"b\": 1}", "[1]", "1"}

json_loads(text) ==
    CASE text = "{}" -> [error |-> "", type |-> "dict", value |-> {}]
      [] text = "{\"a\": 1}" ->
             [error |-> "", type |-> "dict", value |-> {<<"a", 1>>}]
      [] text = "{\"a\":1}" ->
             [error |-> "", type |-> "dict", value |-> {<<"a", 1>>}]
      [] text = "{\"a\": 2}" ->
             [error |-> "", type |-> "dict", value |-> {<<"a", 2>>}]
      [] text = "{\"b\": 1}" ->
             [error |-> "", type |-> "dict", value |-> {<<"b", 1>>}]
      [] text = "[1]" -> [error |-> "", type |-> "list", value |-> {}]
      [] text = "1" -> [error |-> "", type |-> "int", value |-> {}]
      [] OTHER -> [error |-> "JSONDecodeError", type |-> "", value |-> {}]

\* dict.keys() and dict[key]
keys(d) == {p[1] : p \in d}
item(d, key) == (CHOOSE p \in d : p[1] = key)[2]

\* The outcomes of _compute_dict_diff on two parsed values: an
\* AttributeError when one of them has no keys(), else the key lists in any
\* order the sets may be iterated in.
compute_dict_diff(dict_a, dict_b) ==
    IF dict_a.type # "dict" \/ dict_b.type # "dict"
    THEN {[error |-> "AttributeError", type |-> "dict", added_keys |-> <<>>,
           removed_keys |-> <<>>, modified_keys |-> <<>>]}
    ELSE LET keys_a == keys(dict_a.value)
             keys_b == keys(dict_b.value)
             added_keys == keys_b \ keys_a
             removed_keys == keys_a \ keys_b
             common_keys == keys_a \cap keys_b
             differing == {key \in common_keys :
                              item(dict_a.value, key) # item(dict_b.value, key)}
         IN {[error |-> "", type |-> "dict", added_keys |-> added,
              removed_keys |-> removed,
              modified_keys |->
                  [i \in 1..Len(modified) |->
                      [key |-> modified[i],
                       old_value |-> item(dict_a.value, modified[i]),
                       new_value |-> item(dict_b.value, modified[i])]]] :
                added \in list(added_keys), removed \in list(removed_keys),
                modified \in list(differing)}

\* diff["content_diff"] when the key is not set, and the fallback marker.
NoContentDiff ==
    [error |-> "", type |-> "absent", added_keys |-> <<>>,
     removed_keys |-> <<>>, modified_keys |-> <<>>]
RawContentDiffers ==
    [error |-> "", type |-> "Raw content differs", added_keys |-> <<>>,
     removed_keys |-> <<>>, modified_keys |-> <<>>]

\* The outcomes of compute_artifact_diff: the diff, or the exception that
\* leaves the call.
compute_artifact_diff(artifact_a, artifact_b) ==
    LET diff == [id_match |-> artifact_a.id = artifact_b.id,
                 type_match |->
                     artifact_a.artifact_type = artifact_b.artifact_type,
                 content_match |-> artifact_a.content = artifact_b.content,
                 sha256_match |->
                     Artifact_sha256(artifact_a) = Artifact_sha256(artifact_b),
                 fingerprint_match |->
                     Artifact_fingerprint(artifact_a)
                         = Artifact_fingerprint(artifact_b),
                 parent_match |->
                     artifact_a.parent_artifact_id
                         = artifact_b.parent_artifact_id]
        content_a == json_loads(artifact_a.content)
        content_b == json_loads(artifact_b.content)
    IN IF diff.content_match
       THEN {[error |-> "", diff |-> diff, content_diff |-> NoContentDiff]}
       ELSE IF content_a.error = "JSONDecodeError"
                   \/ content_b.error = "JSONDecodeError"
       THEN {[error |-> "", diff |-> diff, content_diff |-> RawContentDiffers]}
       ELSE {[error |-> d.error, diff |-> diff, content_diff |-> d] :
                d \in compute_dict_diff(content_a, content_b)}

\* The artifacts a caller compares.
DiffArtifacts ==
    {[Artifact(artifact_type, content, NoId, EmptyDict,
               <<None, None, None, None>>, 0) EXCEPT !.id = i] :
        artifact_type \in ReadTypes, content \in DiffTexts, i \in {NoId, 1}}

InitArtifactDiff ==
    /\ evidence = <<>>
    /\ claims = <<>>
    /\ artifacts = <<>>
    /\ now = 0
    /\ call = [op |-> "none"]
    /\ result = [error |-> "", id |-> NoId]
    /\ input \in DiffArtifacts \X DiffArtifacts
    /\ output = <<>>
    /\ plugins = <<>>

ComputeArtifactDiff ==
    /\ call.op = "none"
    /\ call' = [op |-> "compute_artifact_diff"]
    /\ output' \in compute_artifact_diff(input[1], input[2])
    /\ UNCHANGED <<evidence, claims, artifacts, now, result, input, plugins>>

NextArtifactDiff == ComputeArtifactDiff

SpecArtifactDiff == InitArtifactDiff /\ [][NextArtifactDiff]_vars

\* json.loads gives key/value data.
ParsesAsDict(text) == json_loads(text).error = "" /\ json_loads(text).type = "dict"

\* C27: compute_artifact_diff includes content_diff if and only if the two
\* contents differ; when they differ and both parse as key/value data it
\* reports the added, removed and modified keys, and when either does not
\* parse as key/value data it returns the 'Raw content differs' marker
\* instead of raising an error.
C27_ArtifactContentDiff ==
    call.op = "compute_artifact_diff" =>
        LET a == input[1].content
            b == input[2].content
            d == output.content_diff
        IN /\ output.error = ""
           /\ d # NoContentDiff <=> a # b
           /\ (a # b /\ ParsesAsDict(a) /\ ParsesAsDict(b)) =>
                  LET dict_a == json_loads(a).value
                      dict_b == json_loads(b).value
                  IN /\ d.type = "dict"
                     /\ Range(d.added_keys) = keys(dict_b) \ keys(dict_a)
                     /\ Range(d.removed_keys) = keys(dict_a) \ keys(dict_b)
                     /\ {m.key : m \in Range(d.modified_keys)}
                           = {k \in keys(dict_a) \cap keys(dict_b) :
                                 item(dict_a, k) # item(dict_b, k)}
           /\ (a # b /\ ~(ParsesAsDict(a) /\ ParsesAsDict(b))) =>
                  d = RawContentDiffers

(***************************************************************************)
(* utils/alerts.py: AlertGenerator.generate_summary                        *)
(***************************************************************************)
Severities == {"low", "medium", "high", "critical"}

\* Alert.to_dict()
to_dict(alert) ==
    [alert_type |-> alert.alert_type, severity |-> alert.severity,
     message |-> alert.message, details |-> alert.details,
     timestamp |-> isoformat(alert.timestamp)]

\* A count that is set to one each time its type is met.
count_type_once(type_counts, alert_type) ==
    [t \in DOMAIN type_counts \cup {alert_type} |->
        IF t = alert_type THEN 1 ELSE type_counts[t]]

\* type_counts[alert.alert_type] = type_counts.get(alert.alert_type, 0) + 1
count_type(type_counts, alert_type) ==
    [t \in DOMAIN type_counts \cup {alert_type} |->
        IF t = alert_type
        THEN (IF t \in DOMAIN type_counts THEN type_counts[t] ELSE 0) + 1
        ELSE type_counts[t]]

\* for alert in alerts: ...; a severity that is not a key of
\* severity_counts raises KeyError.
RECURSIVE summary_loop(_, _, _)
summary_loop(alerts, severity_counts, type_counts) ==
    IF alerts = <<>>
    THEN [error |-> "", severity_counts |-> severity_counts,
          type_counts |-> type_counts]
    ELSE LET alert == Head(alerts)
         IN IF alert.severity \notin DOMAIN severity_counts
            THEN [error |-> "KeyError", severity_counts |-> severity_counts,
                  type_counts |-> type_counts]
            ELSE summary_loop(Tail(alerts),
                     [severity_counts EXCEPT ![alert.severity] = @ + 1],
                     count_type(type_counts, alert.alert_type))

generate_summary(self, alerts) ==
    LET counted == summary_loop(alerts, [sv \in Severities |-> 0],
                                [t \in {} |-> 0])
    IN IF counted.error # ""
       THEN [error |-> counted.error, total_alerts |-> 0,
             severity_counts |-> counted.severity_counts,
             type_counts |-> counted.type_counts, alerts |-> <<>>]
       ELSE [error |-> "", total_alerts |-> Len(alerts),
             severity_counts |-> counted.severity_counts,
             type_counts |-> counted.type_counts,
             alerts |-> [i \in 1..Len(alerts) |-> to_dict(alerts[i])]]

\* The alerts a caller summarises: the four severities and one that is not
\* among them.
SummaryTypes == {"high_confidence_claim", "confidence_drop"}
SummaryAlerts ==
    {Alert(alert_type, severity, "m", EmptyDict) :
        alert_type \in SummaryTypes, severity \in Severities \cup {"info"}}

InitSummary ==
    /\ evidence = <<>>
    /\ claims = <<>>
    /\ artifacts = <<>>
    /\ now = 0
    /\ call = [op |-> "none"]
    /\ result = [error |-> "", id |-> NoId]
    /\ input \in SeqsUpTo(SummaryAlerts, MaxAlerts)
    /\ output = <<>>
    /\ plugins = <<>>

GenerateSummary ==
    /\ call.op = "none"
    /\ call' = [op |-> "generate_summary"]
    /\ output' = generate_summary(AlertGenerator(2, 9), input)
    /\ UNCHANGED <<evidence, claims, artifacts, now, result, input, plugins>>

NextSummary == GenerateSummary

SpecSummary == InitSummary /\ [][NextSummary]_vars

\* The sum of the values of a function.
RECURSIVE SumOver(_, _)
SumOver(f, S) ==
    IF S = {} THEN 0
    ELSE LET x == CHOOSE y \in S : TRUE IN f[x] + SumOver(f, S \ {x})

\* C28: for a list of alerts whose severities are among low, medium, high
\* and critical, generate_summary returns total_alerts equal to the number
\* of alerts, severity_counts with exactly those four keys, and type_counts
\* over the observed types, each count the number of alerts it stands for,
\* so that the severity counts and the type counts both sum to
\* total_alerts.
C28_SummaryCounts ==
    (/\ call.op = "generate_summary"
     /\ \A a \in Range(input) : a.severity \in Severities)
    => /\ output.error = ""
       /\ output.total_alerts = Len(input)
       /\ DOMAIN output.severity_counts = Severities
       /\ \A sv \in Severities :
             output.severity_counts[sv]
                = Cardinality({i \in 1..Len(input) : input[i].severity = sv})
       /\ DOMAIN output.type_counts = {a.alert_type : a \in Range(input)}
       /\ \A t \in DOMAIN output.type_counts :
             output.type_counts[t] = Len(AlertsOfType(input, t))
       /\ SumOver(output.severity_counts, Severities) = output.total_alerts
       /\ SumOver(output.type_counts, DOMAIN output.type_counts)
             = output.total_alerts

C28_Witness ==
    /\ call.op = "generate_summary"
    /\ output.error = ""
    /\ output.total_alerts = MaxAlerts
    /\ output.severity_counts["critical"] = 0
    /\ output.severity_counts["low"] = 2
    /\ Cardinality(DOMAIN output.type_counts) = 1

\* The place of an alert's rule among the three loops of generate_alerts.
RuleOf(alert) ==
    IF alert.alert_type = "high_confidence_claim" THEN 1
    ELSE IF alert.alert_type = "well_supported_claim" THEN 2
    ELSE 3

\* The ids of the claims that the alerts of a list are about, and the ids of
\* a list of claims.
AlertClaimIds(alerts) == [i \in 1..Len(alerts) |-> alerts[i].details.claim_id]
ClaimIds(cs) == [i \in 1..Len(cs) |-> cs[i].id]

\* C29: the alert list of generate_alerts is ordered by rule and then by
\* input position: all high_confidence_claim alerts, then all
\* well_supported_claim alerts, then all confidence_drop and
\* confidence_increase alerts, each group in the order of its claims in the
\* current list; every alert has severity high or medium.
C29_AlertOrder ==
    call.op = "generate_alerts" =>
        /\ \A i, j \in 1..Len(output) :
              (i < j => RuleOf(output[i]) <= RuleOf(output[j]))
        /\ output = AlertsOfType(output, "high_confidence_claim")
                      \o AlertsOfType(output, "well_supported_claim")
                      \o ChangeAlerts(output)
        /\ AlertClaimIds(AlertsOfType(output, "high_confidence_claim"))
              = ClaimIds(SelectSeq(input.claims,
                    LAMBDA c : is_high_confidence(input.self, c)))
        /\ AlertClaimIds(AlertsOfType(output, "well_supported_claim"))
              = ClaimIds(SelectSeq(input.claims,
                    LAMBDA c : total_evidence(c) >= 5))
        /\ AlertClaimIds(ChangeAlerts(output))
              = ClaimIds(SelectSeq(input.claims,
                    LAMBDA c : ExpectedChange(input.self, c,
                                   IF input.previous_claims = NoRun
                                   THEN <<>> ELSE input.previous_claims)
                               # <<>>))
        /\ \A a \in Range(output) : a.severity \in {"high", "medium"}

C29_Witness ==
    /\ call.op = "generate_alerts"
    /\ Len(output) = 5
    /\ AlertClaimIds(output) = <<2, 1, 2, 1, 1>>
    /\ RuleOf(output[2]) = 1
    /\ RuleOf(output[3]) = 2
    /\ RuleOf(output[5]) = 3

(***************************************************************************)
(* compute_run_diff on claims that differ in one field at a time.          *)
(***************************************************************************)
\* The runs a caller compares: one claim, and the claims that differ from it
\* in the metadata, in the order of a list of evidence, in both, in the
\* statement, in the confidence, and in the timestamp alone.
FingerprintClaims ==
    LET base == Claim("s", 5, <<1, 2>>, <<>>, EmptyDict,
                      <<None, None, None, None>>, 0).value
    IN {[c EXCEPT !.id = i] :
           c \in {base,
                  [base EXCEPT !.metadata = {<<<<"c">>, <<"c">>>>}],
                  [base EXCEPT !.supporting_evidence_ids = <<2, 1>>],
                  [base EXCEPT !.metadata = {<<<<"c">>, <<"c">>>>},
                               !.supporting_evidence_ids = <<2, 1>>],
                  [base EXCEPT !.statement = "t"],
                  [base EXCEPT !.confidence = 8],
                  [base EXCEPT !.timestamp = 1]},
           i \in DiffIds}

InitFingerprintDiff ==
    /\ evidence = <<>>
    /\ claims = <<>>
    /\ artifacts = <<>>
    /\ now = 0
    /\ call = [op |-> "none"]
    /\ result = [error |-> "", id |-> NoId]
    /\ input \in SeqsUpTo(FingerprintClaims, MaxRun)
                    \X SeqsUpTo(FingerprintClaims, MaxRun)
    /\ output = <<>>
    /\ plugins = <<>>

SpecFingerprintDiff == InitFingerprintDiff /\ [][NextRunDiff]_vars

\* Two claims that differ at most in the metadata and in the order of their
\* lists of evidence.
SameFingerprintFields(a, b) ==
    /\ a.statement = b.statement
    /\ a.confidence = b.confidence
    /\ sorted(a.supporting_evidence_ids) = sorted(b.supporting_evidence_ids)
    /\ sorted(a.counter_evidence_ids) = sorted(b.counter_evidence_ids)
    /\ a.timestamp = b.timestamp
    /\ <<a.tool_name, a.tool_version, a.model_name, a.model_version>>
          = <<b.tool_name, b.tool_version, b.model_name, b.model_version>>

\* C30: every entry of modified_claims has fingerprint_changed = true: two
\* claims that differ in statement or confidence differ in run_fingerprint,
\* and two claims that differ only in fields outside the fingerprint (the
\* metadata, the order of the evidence lists) are never reported as modified.
C30_ModifiedMeansFingerprintChanged ==
    output # <<>> =>
        LET modified == output.modified_claims
            common == IdsOf(input[1]) \cap IdsOf(input[2])
        IN /\ \A i \in 1..Len(modified) : modified[i].fingerprint_changed
           /\ \A k \in common :
                 LET a == LastWith(input[1], k)
                     b == LastWith(input[2], k)
                 IN /\ (a.statement # b.statement
                           \/ a.confidence # b.confidence)
                       => run_fingerprint(a) # run_fingerprint(b)
                    /\ SameFingerprintFields(a, b)
                       => \A i \in 1..Len(modified) : modified[i].id # k

C30_Witness ==
    /\ output # <<>>
    /\ Len(input[1]) = 2
    /\ Len(input[2]) = 2
    /\ IdsOf(input[1]) = {1, 2}
    /\ IdsOf(input[2]) = {1, 2}
    /\ LastWith(input[1], 1).metadata # LastWith(input[2], 1).metadata
    /\ LastWith(input[1], 1).supporting_evidence_ids
          # LastWith(input[2], 1).supporting_evidence_ids
    /\ SameFingerprintFields(LastWith(input[1], 1), LastWith(input[2], 1))
    /\ Len(output.modified_claims) = 1
    /\ output.modified_claims[1].id = 2
    /\ output.modified_claims[1].fingerprint_changed
    /\ output.modified_claims[1].confidence_changed

====
